---- MODULE Spec2Model ----
(***************************************************************************)
(* Quote-comparison chatbot (statement_4_quote_comparison): the dialogue   *)
(* controller chat(), its collaborators understand_question(), get_plans() *)
(* and generate_answer(), and the two serving boundaries: the command-line *)
(* loop of main.py and the Flask routes of app.py, for one browser, for    *)
(* several browsers and for overlapping requests. Then the upload and      *)
(* progress routes of the policy summary assistant                         *)
(* (statement_1_policy_summary/app.py) with its background threads.        *)
(***************************************************************************)
EXTENDS Integers, Sequences, FiniteSets, TLC

VARIABLES
    entry,           \* which program runs: "main.py" (CLI loop) or "app.py" (Flask)
    store,           \* documents of the Chroma collection (vector_db)
    history,         \* main.py: history, list of {user, bot, plans}
    prev_questions,  \* main.py: prev_questions, list of user questions
    cli_pc,          \* main.py: "running" | "exited" | "crashed" (uncaught exception)
    session,         \* app.py: the Flask session (keys history, prev_questions)
    kinds,           \* observation: route ("NEW"/"FOLLOW_UP") of every committed turn
    n_committed,     \* observation: committed outcomes since the logs were last empty
    last,            \* observation: the last serving step (inputs, calls, result)
    browser,         \* app.py: the browser whose cookie is in session
    jar,             \* app.py: the session cookie every other browser holds
    inflight,        \* app.py: /chat requests sent and not yet answered
    clock,           \* policy summary app.py: the value time.time() returned last
    processing_tasks, \* policy summary app.py: processing_tasks, task id -> upload
    uploads,         \* policy summary app.py: per upload, its queues and its thread
    streams          \* policy summary app.py: the generators of GET /progress/<id>

\* the state the chatbot's own steps leave alone: the other browsers and
\* the policy-summary application
elsewhere == <<browser, jar, inflight, clock, processing_tasks, uploads, streams>>

vars == <<entry, store, history, prev_questions, cli_pc, session, kinds, n_committed, last,
          browser, jar, inflight, clock, processing_tasks, uploads, streams>>

(***************************************************************************)
(* Bounds of the model.                                                    *)
(***************************************************************************)
\* chat steps are offered while the turn log is shorter than this
MaxTurns == 3

\* /chat requests one browser has in flight at a time
MaxInFlight == 2

\* policy summary: uploads accepted, /progress streams opened
MaxUploads == 2
MaxStreams == 2

\* policy summary: uploads and streams together
MaxRequests == 3

\* policy summary: the longest document, in chunks, that is processed alone
MaxChunks == 25

(***************************************************************************)
(* Text of the classification call, as a sequence of JSON tokens.          *)
(***************************************************************************)
P(c) == [t |-> "p", s |-> c, n |-> 0]        \* punctuation { } [ ] , :
S(x) == [t |-> "str", s |-> x, n |-> 0]      \* string literal
N(i) == [t |-> "num", s |-> "", n |-> i]     \* number literal
Nul == [t |-> "null", s |-> "", n |-> 0]     \* null literal
W(x) == [t |-> "word", s |-> x, n |-> 0]     \* bare prose: not JSON

\* Python values read from JSON: scalars and lists of numbers
VNull == [kind |-> "null", n |-> 0, s |-> "", items |-> <<>>]
VNum(i) == [kind |-> "num", n |-> i, s |-> "", items |-> <<>>]
VStr(x) == [kind |-> "str", n |-> 0, s |-> x, items |-> <<>>]
VList(xs) == [kind |-> "list", n |-> 0, s |-> "", items |-> xs]

\* the keys chat() reads from the classifier's dict
ContractKeys == {"question_type", "premium_amounts", "reason"}

NoVals == [k \in ContractKeys |-> VNull]

\* a top-level Python value: a scalar or list (has = {}), or a dict
Top(v) == [kind |-> v.kind, n |-> v.n, s |-> v.s, items |-> v.items,
           has |-> {}, val |-> NoVals]
Dict(has, val) == [kind |-> "dict", n |-> 0, s |-> "", items |-> <<>>,
                   has |-> has, val |-> val]

IsOpen(tok) == tok.t = "p" /\ tok.s \in {"[", "{"}
IsClose(tok) == tok.t = "p" /\ tok.s \in {"]", "}"}

\* nesting depth in front of position i
DepthAt(toks, i) ==
    Cardinality({j \in 1..(i-1) : IsOpen(toks[j])})
        - Cardinality({j \in 1..(i-1) : IsClose(toks[j])})

TopCommas(toks) == {i \in 1..Len(toks) : toks[i] = P(",") /\ DepthAt(toks, i) = 0}

RECURSIVE SortedSeq(_)
SortedSeq(set) ==
    IF set = {} THEN <<>>
    ELSE LET m == CHOOSE x \in set : \A y \in set : x <= y
         IN <<m>> \o SortedSeq(set \ {m})

\* the comma-separated parts of a non-empty token sequence, in order
Segments(toks) ==
    LET commas == TopCommas(toks)
        starts == SortedSeq({1} \cup {i + 1 : i \in commas})
        EndOf(a) == (CHOOSE c \in commas \cup {Len(toks) + 1} :
                        c >= a /\ \A d \in commas \cup {Len(toks) + 1} : d >= a => c <= d) - 1
    IN [k \in 1..Len(starts) |-> SubSeq(toks, starts[k], EndOf(starts[k]))]

IsScalarTok(seg) == Len(seg) = 1 /\ seg[1].t \in {"num", "str", "null"}

ScalarOf(tok) ==
    CASE tok.t = "num" -> VNum(tok.n)
      [] tok.t = "str" -> VStr(tok.s)
      [] OTHER -> VNull

IsArrayTok(seg) ==
    /\ Len(seg) >= 2
    /\ seg[1] = P("[")
    /\ seg[Len(seg)] = P("]")
    /\ LET inner == SubSeq(seg, 2, Len(seg) - 1)
       IN inner = <<>> \/ \A k \in DOMAIN Segments(inner) :
                              /\ Len(Segments(inner)[k]) = 1
                              /\ Segments(inner)[k][1].t = "num"

ArrayOf(seg) ==
    LET inner == SubSeq(seg, 2, Len(seg) - 1)
    IN IF inner = <<>> THEN VList(<<>>)
       ELSE VList([k \in DOMAIN Segments(inner) |-> Segments(inner)[k][1].n])

IsValueTok(seg) == IsScalarTok(seg) \/ IsArrayTok(seg)
ValueOf(seg) == IF IsScalarTok(seg) THEN ScalarOf(seg[1]) ELSE ArrayOf(seg)

IsMemberTok(seg) ==
    /\ Len(seg) >= 3
    /\ seg[1].t = "str"
    /\ seg[2] = P(":")
    /\ IsValueTok(SubSeq(seg, 3, Len(seg)))

IsObjectTok(toks) ==
    /\ Len(toks) >= 2
    /\ toks[1] = P("{")
    /\ toks[Len(toks)] = P("}")
    /\ LET inner == SubSeq(toks, 2, Len(toks) - 1)
       IN inner = <<>> \/ \A k \in DOMAIN Segments(inner) : IsMemberTok(Segments(inner)[k])

\* a repeated key keeps its last value, as in a Python dict
ObjectOf(toks) ==
    LET inner == SubSeq(toks, 2, Len(toks) - 1)
        segs == IF inner = <<>> THEN <<>> ELSE Segments(inner)
        At(key) == {k \in DOMAIN segs : segs[k][1].s = key}
        LastAt(key) == CHOOSE k \in At(key) : \A j \in At(key) : j <= k
    IN Dict({key \in ContractKeys : At(key) # {}},
            [key \in ContractKeys |->
                IF At(key) = {} THEN VNull
                ELSE ValueOf(SubSeq(segs[LastAt(key)], 3, Len(segs[LastAt(key)])))])

\* json.loads on the JSON subset of the model: scalars, arrays of numbers and
\* objects whose members are scalars or arrays of numbers; ok = FALSE is the
\* JSONDecodeError
json_loads(toks) ==
    IF IsObjectTok(toks) THEN [ok |-> TRUE, v |-> ObjectOf(toks)]
    ELSE IF IsValueTok(toks) THEN [ok |-> TRUE, v |-> Top(ValueOf(toks))]
    ELSE [ok |-> FALSE, v |-> Top(VNull)]

(***************************************************************************)
(* The inputs of the model: what the user types, what the classification   *)
(* call answers, what the generation call answers, what the store holds.   *)
(***************************************************************************)
Member(key, valtoks) == <<S(key), P(":")>> \o valtoks

RECURSIVE NumList(_)
NumList(xs) ==
    IF xs = <<>> THEN <<>>
    ELSE IF Len(xs) = 1 THEN <<N(xs[1])>>
    ELSE <<N(xs[1]), P(",")>> \o NumList(Tail(xs))

NumArray(xs) == <<P("[")>> \o NumList(xs) \o <<P("]")>>

\* {"question_type": qt, "premium_amounts": pa, "reason": reason}
Contract(qt, pa, reason) ==
    <<P("{")>> \o Member("question_type", <<S(qt)>>) \o <<P(",")>>
        \o Member("premium_amounts", pa) \o <<P(",")>>
        \o Member("reason", <<S(reason)>>) \o <<P("}")>>

\* texts that follow the prompt's output format
NewTexts ==
    { Contract("NEW", NumArray(<<22500, 18000>>), "2 premiums to compare"),
      Contract("NEW", NumArray(<<18000, 22500, 28000>>), "3 premiums to compare"),
      Contract("NEW", NumArray(<<99000, 22500, 18000>>), "3 premiums to compare"),
      Contract("NEW", NumArray(<<99000, 77000>>), "2 premiums to compare") }

FollowUpTexts == { Contract("FOLLOW_UP", <<Nul>>, "Asking about previous results") }

ContractTexts ==
    NewTexts \cup FollowUpTexts \cup
    { Contract("INVALID", <<Nul>>, "Not insurance related"),
      Contract("INVALID", NumArray(<<18000>>), "Only 1 premium, need at least 2") }

\* texts with the three keys whose values break the prompt's rules
OffContractTexts ==
    { Contract("NEW", NumArray(<<99000>>), "1 premium"),
      Contract("NEW", NumArray(<<99000, 99000>>), "2 premiums to compare"),
      Contract("NEW", NumArray(<<18000, 22500, 28000, 99000>>), "4 premiums"),
      Contract("NEW", <<Nul>>, "compare plans"),
      Contract("NEW", NumArray(<<>>), "compare plans"),
      Contract("MAYBE", <<Nul>>, "unsure") }

\* well-formed JSON that is not the contract's object
OtherJsonTexts ==
    { NumArray(<<18000, 22500>>),
      <<N(42)>>,
      <<Nul>>,
      <<S("NEW")>>,
      <<P("{"), P("}")>>,
      <<P("{")>> \o Member("question_type", <<S("INVALID")>>) \o <<P("}")>>,
      <<P("{")>> \o Member("question_type", <<S("INVALID")>>) \o <<P(",")>>
          \o Member("premium_amounts", <<Nul>>) \o <<P("}")>>,
      <<P("{")>> \o Member("premium_amounts", NumArray(<<18000, 22500>>)) \o <<P(",")>>
          \o Member("reason", <<S("2 premiums to compare")>>) \o <<P("}")>> }

\* texts json.loads rejects: empty, prose, prose around JSON, truncated JSON
NonJsonTexts ==
    { <<>>,
      <<W("Sure")>>,
      <<W("Here"), P("{"), P("}")>>,
      <<P("{")>> \o Member("question_type", <<S("NEW")>>) \o <<P(",")>>,
      <<P("{")>> \o Member("question_type", <<S("NEW")>>),
      <<P("[") , N(18000), P(",")>> }

RawTexts == ContractTexts \cup OffContractTexts \cup OtherJsonTexts \cup NonJsonTexts

\* what the user types, as a sequence of words and blanks
RawInputs == { <<>>, <<" ">>, <<" ", "compare", " ">>, <<"which">> }

\* what is typed at the command line: one question, and a word that ends
\* the loop
CliInputs == { <<>>, <<" ">>, <<" ", "compare", " ">>, <<"Exit", " ">> }

\* texts of the generation call
Answers == {"answer"}

\* a document of the collection: metadata["premium"] and its page_content
Doc(id, premium) == [id |-> id, premium |-> premium]
page_content(doc) == doc.id

\* the collection after ingestion; two documents share the premium 28000
InitialStore == {Doc(1, 18000), Doc(2, 22500), Doc(3, 28000), Doc(4, 28000)}

\* what data/statement_4_data.json may hold when the collection is rebuilt:
\* the same plans, or the file without one of the plans of premium 28000
DataFiles == {InitialStore, {Doc(1, 18000), Doc(2, 22500), Doc(4, 28000)}}

\* similarity scores of the documents for a query: which of two documents
\* with the same premium is the better match is the embedding's business
Rankings == {<<1, 2, 3, 4>>, <<1, 2, 4, 3>>}

(***************************************************************************)
(* Calls to the collaborators, recorded in the order chat() makes them.    *)
(***************************************************************************)
NoPlanText == [none |-> TRUE, contents |-> <<>>]

\* raised: the call ended with an exception
Call(fn, question, prev_context, key, messages, raised) ==
    [fn |-> fn, question |-> question, prev_context |-> prev_context,
     key |-> key, messages |-> messages, raised |-> raised]

Message(role, user, bot, plan_text) ==
    [role |-> role, user |-> user, bot |-> bot, plan_text |-> plan_text]

(***************************************************************************)
(* understand_question: LLM1 classifies; the text it returns is parsed.    *)
(***************************************************************************)
\* prev_context: "None", or one "- q" line per previous question
PrevContext(prev_qs) ==
    IF prev_qs # <<>> THEN [none |-> FALSE, lines |-> prev_qs]
    ELSE [none |-> TRUE, lines |-> <<>>]

\* the dict of the except branch
ParseFallback ==
    Dict(ContractKeys,
         [k \in ContractKeys |->
            CASE k = "question_type" -> VStr("INVALID")
              [] k = "premium_amounts" -> VNull
              [] OTHER -> VStr("Error parsing AI response")])

\* try: return json.loads(response.content) / except: return the fallback
\* (tabulated over the texts of the model, so that each is parsed once)
loads_or_fallback ==
    [text \in RawTexts |-> IF json_loads(text).ok THEN json_loads(text).v ELSE ParseFallback]

\* llm1 = [raises, error, content]: the classification call raises error, or
\* returns content
understand_question(question, prev_qs, llm1) ==
    LET call == Call("llm1", question, PrevContext(prev_qs), 0, <<>>, llm1.raises)
    IN IF llm1.raises
       THEN [raised |-> TRUE, error |-> llm1.error, v |-> Top(VNull), call |-> call]
       ELSE [raised |-> FALSE, error |-> "", v |-> loads_or_fallback[llm1.content],
             call |-> call]

(***************************************************************************)
(* get_plans: one filtered k=1 lookup per premium.                         *)
(***************************************************************************)
\* (mutant) a lookup without k=1: every document with the premium
similarity_search_all(st, premium, rank) ==
    LET ids == SortedSeq({d.id : d \in {m \in st : m.premium = premium}})
    IN [k \in DOMAIN ids |-> CHOOSE d \in st : d.id = ids[k]]

\* vector_db.similarity_search(query, k=1, filter={"premium": premium})
similarity_search(st, premium, rank) ==
    LET matches == {d \in st : d.premium = premium}
    IN IF matches = {} THEN <<>>
       ELSE <<CHOOSE d \in matches : \A e \in matches : rank[d.id] <= rank[e.id]>>

\* (mutant) a loop that puts each result in front of the earlier ones
RECURSIVE plans_after_prepended(_, _, _, _)
plans_after_prepended(items, n, st, rank) ==
    IF n = 0 THEN <<>>
    ELSE similarity_search(st, items[n], rank) \o plans_after_prepended(items, n - 1, st, rank)

\* the plans appended by the first n rounds of the loop
RECURSIVE plans_after(_, _, _, _)
plans_after(items, n, st, rank) ==
    IF n = 0 THEN <<>>
    ELSE plans_after(items, n - 1, st, rank) \o similarity_search(st, items[n], rank)

\* the loop over a list of premiums; fail_at = i: the i-th lookup raises
get_plans_loop(items, st, rank, fail_at) ==
    IF fail_at \in 1..Len(items)
    THEN [raised |-> TRUE, error |-> "store unavailable", plans |-> <<>>,
          calls |-> [i \in 1..fail_at |->
                        Call("similarity_search", <<>>, PrevContext(<<>>), items[i], <<>>,
                             i = fail_at)]]
    ELSE [raised |-> FALSE, error |-> "", plans |-> plans_after(items, Len(items), st, rank),
          calls |-> [i \in 1..Len(items) |->
                        Call("similarity_search", <<>>, PrevContext(<<>>), items[i], <<>>,
                             FALSE)]]

\* premiums is the value of "premium_amounts": iterating None or a number
\* raises TypeError; iterating a string yields characters, which match no
\* stored (numeric) premium
get_plans(premiums, st, rank, fail_at) ==
    CASE premiums.kind = "list" -> get_plans_loop(premiums.items, st, rank, fail_at)
      [] premiums.kind = "str" ->
            [raised |-> FALSE, error |-> "", plans |-> <<>>, calls |-> <<>>]
      [] OTHER -> [raised |-> TRUE, error |-> "TypeError", plans |-> <<>>, calls |-> <<>>]

(***************************************************************************)
(* generate_answer: LLM2 answers from the plans and the replayed history.  *)
(***************************************************************************)
\* (mutant) a plan context without the marker for "no plans"
PlanText_unmarked(plans) ==
    [none |-> FALSE, contents |-> [i \in DOMAIN plans |-> page_content(plans[i])]]

\* plan_text: the page_content of each plan, or "No plans available"
PlanText(plans) ==
    IF plans # <<>>
    THEN [none |-> FALSE, contents |-> [i \in DOMAIN plans |-> page_content(plans[i])]]
    ELSE NoPlanText

\* (mutant) a replay that starts with the newest turn
Replay_newest_first(hist) ==
    [i \in 1..(2 * Len(hist)) |->
        IF i % 2 = 1
        THEN Message("human", hist[Len(hist) + 1 - ((i + 1) \div 2)].user, "", NoPlanText)
        ELSE Message("ai", <<>>, hist[Len(hist) + 1 - (i \div 2)].bot, NoPlanText)]

\* for item in history: HumanMessage(item['user']), AIMessage(item['bot'])
Replay(hist) ==
    [i \in 1..(2 * Len(hist)) |->
        IF i % 2 = 1 THEN Message("human", hist[(i + 1) \div 2].user, "", NoPlanText)
        ELSE Message("ai", <<>>, hist[i \div 2].bot, NoPlanText)]

Messages(question, plans, hist) ==
    <<Message("system", <<>>, "", NoPlanText)>>
        \o Replay(hist)
        \o <<Message("human", question, "", PlanText(plans))>>

\* llm2 = [raises, error, content]
generate_answer(question, plans, hist, llm2) ==
    LET call == Call("llm2", question, PrevContext(<<>>), 0,
                     Messages(question, plans, hist), llm2.raises)
    IN [raised |-> llm2.raises, error |-> llm2.error, content |-> llm2.content, call |-> call]

(***************************************************************************)
(* chat: the dialogue controller.                                          *)
(***************************************************************************)
\* the element of a one-element set: Only({e(x) : x \in {v}}) is e(v), with
\* v evaluated once
Only(set) == CHOOSE x \in set : TRUE

\* (mutant) a history item that keeps no plans
Turn_without_plans(user, bot, plans) ==
    [user |-> user, bot |-> bot, has_plans |-> TRUE, plans |-> <<>>]

\* a history item; the Flask session stores items without the 'plans' key
Turn(user, bot, plans) == [user |-> user, bot |-> bot, has_plans |-> TRUE, plans |-> plans]

\* (mutant) a lookup that never finds the cached plans
PlansOf_missing(item) == <<>>

\* item.get("plans", [])
PlansOf(item) == IF item.has_plans THEN item.plans ELSE <<>>

\* the first element of the returned tuple
Resp(msg, reason, premiums, text) ==
    [msg |-> msg, reason |-> reason, premiums |-> premiums, text |-> text]

NoResp == Resp("-", VNull, VNull, "")

\* chat() raised error: nothing is returned
Raised(error, understanding, calls) ==
    [outcome |-> "raised", error |-> error, response |-> NoResp,
     history |-> <<>>, prev_questions |-> <<>>,
     understanding |-> understanding, calls |-> calls]

\* chat() fell off its last if: the implicit return None
ReturnedNone(understanding, calls) ==
    [outcome |-> "none", error |-> "", response |-> NoResp,
     history |-> <<>>, prev_questions |-> <<>>,
     understanding |-> understanding, calls |-> calls]

\* chat() returned (response, history, prev_questions)
Returned(outcome, response, hist, prev_qs, understanding, calls) ==
    [outcome |-> outcome, error |-> "", response |-> response,
     history |-> hist, prev_questions |-> prev_qs,
     understanding |-> understanding, calls |-> calls]

\* (mutant) Route 1 that keeps the rejected attempt in the turn log
route_invalid_logged(hist, prev_qs, u, calls) ==
    IF "reason" \notin u.has THEN Raised("KeyError: 'reason'", u, calls)
    ELSE Returned("invalid", Resp("provide_2_3_premiums", u.val["reason"], VNull, ""),
                  hist \o <<Turn(<<"rejected">>, "", <<>>)>>, prev_qs, u, calls)

\* (mutant) Route 1 that commits the rejected attempt like an answered turn
route_invalid_committed(hist, prev_qs, u, calls) ==
    IF "reason" \notin u.has THEN Raised("KeyError: 'reason'", u, calls)
    ELSE Returned("invalid", Resp("provide_2_3_premiums", u.val["reason"], VNull, ""),
                  IF Len(hist) < MaxTurns
                  THEN hist \o <<Turn(<<"rejected">>, "", <<>>)>> ELSE hist,
                  IF Len(hist) < MaxTurns
                  THEN prev_qs \o <<(<<"rejected">>)>> ELSE prev_qs,
                  u, calls)

\* (mutant) Route 1 that records the rejected attempt as a previous question
route_invalid_asked(hist, prev_qs, u, calls) ==
    IF "reason" \notin u.has THEN Raised("KeyError: 'reason'", u, calls)
    ELSE Returned("invalid", Resp("provide_2_3_premiums", u.val["reason"], VNull, ""),
                  hist, prev_qs \o <<(<<"rejected">>)>>, u, calls)

\* (mutant) Route 1 whose message leaves the classifier's reason out
route_invalid_generic(hist, prev_qs, u, calls) ==
    IF "reason" \notin u.has THEN Raised("KeyError: 'reason'", u, calls)
    ELSE Returned("invalid", Resp("provide_2_3_premiums", VNull, VNull, ""),
                  hist, prev_qs, u, calls)

\* (mutant) Route 1 that forgets the conversation
route_invalid_forgetting(hist, prev_qs, u, calls) ==
    IF "reason" \notin u.has THEN Raised("KeyError: 'reason'", u, calls)
    ELSE Returned("invalid", Resp("provide_2_3_premiums", u.val["reason"], VNull, ""),
                  <<>>, <<>>, u, calls)

\* Route 1: the f-string reads understanding['reason']
route_invalid(hist, prev_qs, u, calls) ==
    IF "reason" \notin u.has THEN Raised("KeyError: 'reason'", u, calls)
    ELSE Returned("invalid", Resp("provide_2_3_premiums", u.val["reason"], VNull, ""),
                  hist, prev_qs, u, calls)

\* (mutant) Route 2 that asks the generator before the plans are fetched
new_answered_before_fetch(question, hist, prev_qs, u, calls, env, got) ==
    Only({ IF ans.raised THEN Raised(ans.error, u, calls \o <<ans.call>> \o got.calls)
           ELSE Returned("new", Resp("answer", VNull, VNull, ans.content),
                         hist \o <<Turn(question, ans.content, got.plans)>>,
                         prev_qs \o <<question>>,
                         u, calls \o <<ans.call>> \o got.calls)
           : ans \in {generate_answer(question, got.plans, hist, env.llm2)} })

\* Route 2, with plans: answer, then append the turn and the question
new_answered(question, hist, prev_qs, u, calls, env, got) ==
    Only({ IF ans.raised THEN Raised(ans.error, u, calls \o got.calls \o <<ans.call>>)
           ELSE Returned("new", Resp("answer", VNull, VNull, ans.content),
                         hist \o <<Turn(question, ans.content, got.plans)>>,
                         prev_qs \o <<question>>,
                         u, calls \o got.calls \o <<ans.call>>)
           : ans \in {generate_answer(question, got.plans, hist, env.llm2)} })

\* (mutant) Route 2 without the "if not plans" check
new_fetched_unchecked(question, hist, prev_qs, u, calls, env, got) ==
    IF got.raised THEN Raised(got.error, u, calls \o got.calls)
    ELSE new_answered(question, hist, prev_qs, u, calls, env, got)

\* Route 2, from the fetch on: if not plans, the message and nothing appended
new_fetched(question, hist, prev_qs, u, calls, env, got) ==
    IF got.raised THEN Raised(got.error, u, calls \o got.calls)
    ELSE IF got.plans = <<>>
    THEN Returned("no_match", Resp("no_plans_found", VNull, u.val["premium_amounts"], ""),
                  hist, prev_qs, u, calls \o got.calls)
    ELSE new_answered(question, hist, prev_qs, u, calls, env, got)

\* Route 2: plans = get_plans(premiums)
route_new(question, hist, prev_qs, u, calls, env) ==
    Only({ new_fetched(question, hist, prev_qs, u, calls, env, got)
           : got \in {get_plans(u.val["premium_amounts"], env.store, env.rank, env.fail_at)} })

\* (mutant) Route 3 that puts the follow-up turn in the place of the last turn
follow_up_answered_overwriting(question, hist, prev_qs, u, calls, env, last_plans) ==
    Only({ IF ans.raised THEN Raised(ans.error, u, calls \o <<ans.call>>)
           ELSE Returned("follow_up", Resp("answer", VNull, VNull, ans.content),
                         SubSeq(hist, 1, Len(hist) - 1)
                             \o <<Turn(question, ans.content, last_plans)>>,
                         SubSeq(prev_qs, 1, Len(prev_qs) - 1) \o <<question>>,
                         u, calls \o <<ans.call>>)
           : ans \in {generate_answer(question, last_plans, hist, env.llm2)} })

\* Route 3, with history: answer from last_plans, then append
follow_up_answered(question, hist, prev_qs, u, calls, env, last_plans) ==
    Only({ IF ans.raised THEN Raised(ans.error, u, calls \o <<ans.call>>)
           ELSE Returned("follow_up", Resp("answer", VNull, VNull, ans.content),
                         hist \o <<Turn(question, ans.content, last_plans)>>,
                         prev_qs \o <<question>>,
                         u, calls \o <<ans.call>>)
           : ans \in {generate_answer(question, last_plans, hist, env.llm2)} })

\* (mutant) Route 3 that looks the premiums of the cached plans up again
route_follow_up_refetched(question, hist, prev_qs, u, calls, env) ==
    IF hist = <<>>
    THEN Returned("empty_history", Resp("ask_comparison_first", VNull, VNull, ""),
                  hist, prev_qs, u, calls)
    ELSE follow_up_answered(question, hist, prev_qs, u, calls, env,
                            plans_after([k \in DOMAIN PlansOf(hist[Len(hist)]) |->
                                            PlansOf(hist[Len(hist)])[k].premium],
                                        Len(PlansOf(hist[Len(hist)])), env.store, env.rank))

\* (mutant) Route 3 that records the question before it looks at the history
route_follow_up_asked(question, hist, prev_qs, u, calls, env) ==
    IF hist = <<>>
    THEN Returned("empty_history", Resp("ask_comparison_first", VNull, VNull, ""),
                  hist, prev_qs \o <<question>>, u, calls)
    ELSE follow_up_answered(question, hist, prev_qs, u, calls, env, PlansOf(hist[Len(hist)]))

\* Route 3: if not history, the message; else reuse the plans of the last turn
route_follow_up(question, hist, prev_qs, u, calls, env) ==
    IF hist = <<>>
    THEN Returned("empty_history", Resp("ask_comparison_first", VNull, VNull, ""),
                  hist, prev_qs, u, calls)
    ELSE follow_up_answered(question, hist, prev_qs, u, calls, env, PlansOf(hist[Len(hist)]))

\* chat() from the classifier's result (und) on
\* understanding["question_type"], understanding["premium_amounts"], the routes
chat_routes(question, hist, prev_qs, env, und) ==
    IF und.raised THEN Raised(und.error, und.v, <<und.call>>)
    ELSE IF und.v.kind # "dict" THEN Raised("TypeError", und.v, <<und.call>>)
    ELSE IF "question_type" \notin und.v.has
    THEN Raised("KeyError: 'question_type'", und.v, <<und.call>>)
    ELSE IF "premium_amounts" \notin und.v.has
    THEN Raised("KeyError: 'premium_amounts'", und.v, <<und.call>>)
    ELSE IF und.v.val["question_type"] = VStr("INVALID")
    THEN route_invalid(hist, prev_qs, und.v, <<und.call>>)
    ELSE IF und.v.val["question_type"] = VStr("NEW")
    THEN route_new(question, hist, prev_qs, und.v, <<und.call>>, env)
    ELSE IF und.v.val["question_type"] = VStr("FOLLOW_UP")
    THEN route_follow_up(question, hist, prev_qs, und.v, <<und.call>>, env)
    ELSE ReturnedNone(und.v, <<und.call>>)

\* env = [llm1, llm2, store, rank, fail_at]: what the collaborators do in this call
chat(question, hist, prev_qs, env) ==
    Only({ chat_routes(question, hist, prev_qs, env, und)
           : und \in {understand_question(question, prev_qs, env.llm1)} })

\* app.py carries the same chat()
app_chat(question, hist, prev_qs, env) == chat(question, hist, prev_qs, env)

\* what a collaborator's exception says
ErrorTexts == {"connection timed out", "rate limit exceeded"}

Llm1Returns == [raises : {FALSE}, error : {""}, content : RawTexts]
Llm1Raises == [raises : {TRUE}, error : ErrorTexts, content : {<<>>}]
Llm2Returns == [raises : {FALSE}, error : {""}, content : Answers]
Llm2Raises == [raises : {TRUE}, error : ErrorTexts, content : {""}]

\* the texts after which chat() looks premiums up, and those after which it
\* may call the generation call
FetchingTexts == [raises : {FALSE}, error : {""}, content : NewTexts]
AnsweringTexts == [raises : {FALSE}, error : {""}, content : NewTexts \cup FollowUpTexts]

\* what the collaborators do during one call of chat(): everything works, or
\* the store ranks the other way, or one of the three collaborators fails
\* (the first failure ends the call, so a second one behind it changes
\* nothing; a ranking or a failure counts only where chat() gets that far)
Envs ==
    [llm1 : Llm1Returns, llm2 : Llm2Returns, rank : {<<1, 2, 3, 4>>}, fail_at : {0}]
        \cup [llm1 : FetchingTexts, llm2 : Llm2Returns, rank : Rankings, fail_at : {0}]
        \cup [llm1 : Llm1Raises, llm2 : Llm2Returns, rank : {<<1, 2, 3, 4>>}, fail_at : {0}]
        \cup [llm1 : AnsweringTexts, llm2 : Llm2Raises, rank : {<<1, 2, 3, 4>>}, fail_at : {0}]
        \cup [llm1 : FetchingTexts, llm2 : Llm2Returns, rank : {<<1, 2, 3, 4>>}, fail_at : {1, 2}]

EnvWith(e, st) ==
    [llm1 |-> e.llm1, llm2 |-> e.llm2, rank |-> e.rank, fail_at |-> e.fail_at, store |-> st]

(***************************************************************************)
(* The serving boundaries.                                                 *)
(***************************************************************************)
\* str.strip(): blanks at both ends go
RECURSIVE lstrip(_)
lstrip(text) == IF text # <<>> /\ text[1] = " " THEN lstrip(Tail(text)) ELSE text

RECURSIVE rstrip(_)
rstrip(text) ==
    IF text # <<>> /\ text[Len(text)] = " " THEN rstrip(SubSeq(text, 1, Len(text) - 1))
    ELSE text

\* (mutant) a strip that leaves the blanks at the end
strip_left_only(text) == lstrip(text)

\* str.strip(): the blanks at both ends go
strip(text) == rstrip(lstrip(text))

\* str.lower(), word by word
lower(text) == [i \in DOMAIN text |-> IF text[i] = "Exit" THEN "exit" ELSE text[i]]

NoResult == ReturnedNone(Top(VNull), <<>>)

NoHttp == [status |-> 0, success |-> FALSE, response |-> NoResp, error |-> ""]

Http(status, success, response, error) ==
    [status |-> status, success |-> success, response |-> response, error |-> error]

\* except Exception as e: jsonify({"success": False, "error": str(e)}), 500
failure_response(error) == Http(500, FALSE, NoResp, error)

NoLlm1 == [raises |-> FALSE, error |-> "", content |-> <<>>]

\* the record of a serving step: the request, what the classification call
\* did (llm1), what chat() did (r), the logs before the step, the HTTP answer
Step(op, input, llm1, r, pre_history, pre_questions, http) ==
    [op |-> op, input |-> input, llm1 |-> llm1, r |-> r,
     pre_history |-> pre_history, pre_questions |-> pre_questions, http |-> http]

Committed(r) == r.outcome \in {"new", "follow_up"}

KindOf(r) == IF r.outcome = "new" THEN "NEW" ELSE "FOLLOW_UP"

\* the browsers that talk to app.py, and the session of one that has no
\* cookie yet
Browsers == {"a", "b"}

NoCookie == [has_history |-> FALSE, history |-> <<>>,
             has_prev_questions |-> FALSE, prev_questions |-> <<>>]

Init ==
    /\ entry \in {"main.py", "app.py"}
    /\ store = InitialStore
    /\ history = <<>>
    /\ prev_questions = <<>>
    /\ cli_pc = "running"
    /\ session = [has_history |-> FALSE, history |-> <<>>,
                  has_prev_questions |-> FALSE, prev_questions |-> <<>>]
    /\ kinds = <<>>
    /\ n_committed = 0
    /\ last = Step("start", <<>>, NoLlm1, NoResult, <<>>, <<>>, NoHttp)
    /\ browser = "a"
    /\ jar = [b \in Browsers |-> [cookie |-> NoCookie, kinds |-> <<>>, n_committed |-> 0]]
    /\ inflight = {}
    /\ clock = 0
    /\ processing_tasks = <<>>
    /\ uploads = <<>>
    /\ streams = <<>>

(***************************************************************************)
(* main.py: the command-line loop, one action per way through its body.    *)
(***************************************************************************)
\* user_input.lower() in ["exit", "quit"]: break
CliExit(raw) ==
    /\ entry = "main.py" /\ cli_pc = "running"
    /\ lower(strip(raw)) \in {<<"exit">>, <<"quit">>}
    /\ cli_pc' = "exited"
    /\ last' = Step("cli_exit", raw, NoLlm1, NoResult, history, prev_questions, NoHttp)
    /\ UNCHANGED <<entry, store, history, prev_questions, session, kinds, n_committed>>
    /\ UNCHANGED elsewhere

\* not user_input: continue
CliSkip(raw) ==
    /\ entry = "main.py" /\ cli_pc = "running"
    /\ lower(strip(raw)) \notin {<<"exit">>, <<"quit">>}
    /\ strip(raw) = <<>>
    /\ last' = Step("cli_skip", raw, NoLlm1, NoResult, history, prev_questions, NoHttp)
    /\ UNCHANGED <<entry, store, history, prev_questions, cli_pc, session, kinds, n_committed>>
    /\ UNCHANGED elsewhere

\* answer, history, prev_questions = chat(user_input, history, prev_questions);
\* an exception, or unpacking None, ends the process with a traceback
CliChat(raw, e) ==
    /\ entry = "main.py" /\ cli_pc = "running"
    /\ Len(history) < MaxTurns
    /\ lower(strip(raw)) \notin {<<"exit">>, <<"quit">>}
    /\ strip(raw) # <<>>
    /\ \E r \in {chat(strip(raw), history, prev_questions, EnvWith(e, store))} :
          /\ last' = Step("cli_chat", raw, e.llm1, r, history, prev_questions, NoHttp)
          /\ IF r.outcome \in {"raised", "none"}
             THEN /\ cli_pc' = "crashed"
                  /\ UNCHANGED <<history, prev_questions, kinds, n_committed>>
             ELSE /\ history' = r.history
                  /\ prev_questions' = r.prev_questions
                  /\ kinds' = IF Committed(r) THEN Append(kinds, KindOf(r)) ELSE kinds
                  /\ n_committed' = IF Committed(r) THEN n_committed + 1 ELSE n_committed
                  /\ UNCHANGED cli_pc
    /\ UNCHANGED <<entry, store, session>>
    /\ UNCHANGED elsewhere

CliNext ==
    \/ \E raw \in CliInputs : CliExit(raw)
    \/ \E raw \in CliInputs : CliSkip(raw)
    \/ \E raw \in CliInputs, e \in Envs : CliChat(raw, e)

(***************************************************************************)
(* app.py: the Flask routes; the session travels with the requests.        *)
(***************************************************************************)
\* the body of a POST /chat: no JSON (or an empty object), JSON without
\* 'message', a 'message' that is no string, or a text
WebRequests ==
    [json : {"none", "no_message", "not_str"}, message : {<<>>}]
        \cup [json : {"str"}, message : RawInputs]

\* (mutant) a question log kept once for the whole process: every request
\* reads the one of the first browser
SessionQuestions_process_wide ==
    IF browser = "a"
    THEN (IF session.has_prev_questions THEN session.prev_questions ELSE <<>>)
    ELSE (IF jar["a"].cookie.has_prev_questions THEN jar["a"].cookie.prev_questions
          ELSE <<>>)

\* session.get('history', []), session.get('prev_questions', [])
SessionHistory == IF session.has_history THEN session.history ELSE <<>>
SessionQuestions == IF session.has_prev_questions THEN session.prev_questions ELSE <<>>

\* (mutant) a serializable_history that loses the questions of its items
Serializable_users_dropped(hist) ==
    [i \in DOMAIN hist |->
        [user |-> <<>>, bot |-> hist[i].bot, has_plans |-> FALSE, plans |-> <<>>]]

\* serializable_history: every item without its 'plans'
Serializable(hist) ==
    [i \in DOMAIN hist |->
        [user |-> hist[i].user, bot |-> hist[i].bot, has_plans |-> FALSE, plans |-> <<>>]]

\* GET /
Home ==
    /\ entry = "app.py"
    /\ session' = [has_history |-> TRUE, history |-> SessionHistory,
                   has_prev_questions |-> TRUE, prev_questions |-> SessionQuestions]
    /\ last' = Step("home", <<>>, NoLlm1, NoResult, SessionHistory, SessionQuestions,
                    Http(200, TRUE, NoResp, ""))
    /\ UNCHANGED <<entry, store, history, prev_questions, cli_pc, kinds, n_committed>>
    /\ UNCHANGED elsewhere

\* POST /chat answered before chat() is called: 400, or 500 when strip() fails
ChatRejected(req) ==
    /\ entry = "app.py"
    /\ req.json # "str" \/ strip(req.message) = <<>>
    /\ last' = Step("chat_endpoint", req.message, NoLlm1, NoResult, SessionHistory, SessionQuestions,
                    CASE req.json \in {"none", "no_message"} ->
                            Http(400, FALSE, NoResp, "message is required")
                      [] req.json = "not_str" -> failure_response("AttributeError")
                      [] OTHER -> Http(400, FALSE, NoResp, "message cannot be empty"))
    /\ UNCHANGED <<entry, store, history, prev_questions, cli_pc, session, kinds, n_committed>>
    /\ UNCHANGED elsewhere

\* (mutant) POST /chat that stores the question before chat() is called, so
\* that it stays in the session when chat() raises
ChatEndpoint_asked_first(req, e) ==
    /\ entry = "app.py"
    /\ Len(SessionHistory) < MaxTurns
    /\ req.json = "str" /\ strip(req.message) # <<>>
    /\ \E r \in {app_chat(strip(req.message), SessionHistory, SessionQuestions,
                         EnvWith(e, store))} :
          IF r.outcome \in {"raised", "none"}
          THEN /\ last' = Step("chat_endpoint", req.message, e.llm1, r,
                               SessionHistory, SessionQuestions,
                               failure_response(IF r.outcome = "none" THEN "TypeError"
                                                ELSE r.error))
               /\ session' = [has_history |-> session.has_history,
                              history |-> session.history,
                              has_prev_questions |-> TRUE,
                              prev_questions |->
                                  IF Len(SessionQuestions) <= MaxTurns
                                  THEN SessionQuestions \o <<strip(req.message)>>
                                  ELSE SessionQuestions]
               /\ UNCHANGED <<kinds, n_committed>>
          ELSE /\ last' = Step("chat_endpoint", req.message, e.llm1, r,
                               SessionHistory, SessionQuestions,
                               Http(200, TRUE, r.response, ""))
               /\ session' = [has_history |-> TRUE, history |-> Serializable(r.history),
                              has_prev_questions |-> TRUE,
                              prev_questions |-> r.prev_questions]
               /\ kinds' = IF Committed(r) THEN Append(kinds, KindOf(r)) ELSE kinds
               /\ n_committed' = IF Committed(r) THEN n_committed + 1 ELSE n_committed
    /\ UNCHANGED <<entry, store, history, prev_questions, cli_pc>>
    /\ UNCHANGED elsewhere

\* POST /chat with a message: chat(), then the session is rewritten; an
\* exception (unpacking None included) is answered 500 with str(e)
ChatEndpoint(req, e) ==
    /\ entry = "app.py"
    /\ Len(SessionHistory) < MaxTurns
    /\ req.json = "str" /\ strip(req.message) # <<>>
    /\ \E r \in {app_chat(strip(req.message), SessionHistory, SessionQuestions,
                         EnvWith(e, store))} :
          IF r.outcome \in {"raised", "none"}
          THEN /\ last' = Step("chat_endpoint", req.message, e.llm1, r,
                               SessionHistory, SessionQuestions,
                               failure_response(IF r.outcome = "none" THEN "TypeError"
                                                ELSE r.error))
               /\ UNCHANGED <<session, kinds, n_committed>>
          ELSE /\ last' = Step("chat_endpoint", req.message, e.llm1, r,
                               SessionHistory, SessionQuestions,
                               Http(200, TRUE, r.response, ""))
               /\ session' = [has_history |-> TRUE, history |-> Serializable(r.history),
                              has_prev_questions |-> TRUE,
                              prev_questions |-> r.prev_questions]
               /\ kinds' = IF Committed(r) THEN Append(kinds, KindOf(r)) ELSE kinds
               /\ n_committed' = IF Committed(r) THEN n_committed + 1 ELSE n_committed
    /\ UNCHANGED <<entry, store, history, prev_questions, cli_pc>>
    /\ UNCHANGED elsewhere

\* (mutant) POST /reset that empties the history alone
reset_conversation_history_only ==
    /\ entry = "app.py"
    /\ session' = [has_history |-> TRUE, history |-> <<>>,
                   has_prev_questions |-> session.has_prev_questions,
                   prev_questions |-> session.prev_questions]
    /\ kinds' = <<>>
    /\ n_committed' = 0
    /\ last' = Step("reset", <<>>, NoLlm1, NoResult, SessionHistory, SessionQuestions,
                    Http(200, TRUE, NoResp, ""))
    /\ UNCHANGED <<entry, store, history, prev_questions, cli_pc>>
    /\ UNCHANGED elsewhere

\* POST /reset
reset_conversation ==
    /\ entry = "app.py"
    /\ session' = [has_history |-> TRUE, history |-> <<>>,
                   has_prev_questions |-> TRUE, prev_questions |-> <<>>]
    /\ kinds' = <<>>
    /\ n_committed' = 0
    /\ last' = Step("reset", <<>>, NoLlm1, NoResult, SessionHistory, SessionQuestions,
                    Http(200, TRUE, NoResp, ""))
    /\ UNCHANGED <<entry, store, history, prev_questions, cli_pc>>
    /\ UNCHANGED elsewhere

WebNext ==
    \/ Home
    \/ \E req \in WebRequests : ChatRejected(req)
    \/ \E req \in WebRequests, e \in Envs : ChatEndpoint(req, e)
    \/ reset_conversation

(***************************************************************************)
(* chroma_db_maker.py, run again with choice "2": the collection is        *)
(* deleted and rebuilt from the data file as it is then.                   *)
(***************************************************************************)
chroma_db_maker(data) ==
    /\ store' = data
    /\ last' = Step("chroma_db_maker", <<>>, NoLlm1, NoResult,
                    IF entry = "main.py" THEN history ELSE SessionHistory,
                    IF entry = "main.py" THEN prev_questions ELSE SessionQuestions,
                    NoHttp)
    /\ UNCHANGED <<entry, history, prev_questions, cli_pc, session, kinds, n_committed>>
    /\ UNCHANGED elsewhere

\* the two programs, while the collection may be rebuilt under them
Next ==
    \/ CliNext
    \/ WebNext
    \/ \E data \in DataFiles : chroma_db_maker(data)

Spec == Init /\ [][Next]_vars

(***************************************************************************)
(* What the properties read from a state.                                  *)
(***************************************************************************)
\* the session's logs, whichever program runs
TurnLog == IF entry = "main.py" THEN history ELSE SessionHistory
QuestionLog == IF entry = "main.py" THEN prev_questions ELSE SessionQuestions

\* the last step called chat(); the classification call returned a text
ChatCalled == last.r.calls # <<>>
ClassifierReturned == ChatCalled /\ ~last.llm1.raises

\* a collaborator raised during the last step
CollaboratorRaised == \E i \in DOMAIN last.r.calls : last.r.calls[i].raised

CallsTo(fn) == {i \in DOMAIN last.r.calls : last.r.calls[i].fn = fn}

\* the classifier's result is a dict that carries these keys
HasKeys(keys) ==
    /\ ClassifierReturned
    /\ last.r.understanding.kind = "dict"
    /\ keys \subseteq last.r.understanding.has

\* the classifier's result carries the keys chat() routes on, with this type
RoutedAs(qt) ==
    /\ HasKeys({"question_type", "premium_amounts"})
    /\ last.r.understanding.val["question_type"] = VStr(qt)

Premiums == last.r.understanding.val["premium_amounts"]

\* the store holds a plan for this premium
HasMatch(key) == \E d \in store : d.premium = key

\* chat() was called and no collaborator failed
AnsweredOk == ChatCalled /\ ~CollaboratorRaised

(***************************************************************************)
(* C1: append-on-success-only. The turn log is as long as the number of    *)
(* utterances that were committed since the log was empty, and a chat step *)
(* makes the log one longer exactly when the utterance was classified NEW  *)
(* and some premium had a plan, or was classified FOLLOW_UP while the log  *)
(* was not empty (no collaborator failing); otherwise the length stays.    *)
(***************************************************************************)
CommitCase ==
    /\ AnsweredOk
    /\ \/ /\ RoutedAs("NEW")
          /\ Premiums.kind = "list"
          /\ \E i \in DOMAIN Premiums.items : HasMatch(Premiums.items[i])
       \/ /\ RoutedAs("FOLLOW_UP")
          /\ last.pre_history # <<>>

C1_AppendOnSuccessOnly ==
    /\ Len(TurnLog) = n_committed
    /\ ChatCalled =>
          Len(TurnLog) = Len(last.pre_history) + (IF CommitCase THEN 1 ELSE 0)

\* two turns were committed and a third utterance found no plan
C1_Witness ==
    /\ n_committed = 2
    /\ Len(TurnLog) = 2
    /\ last.r.outcome = "no_match"

(***************************************************************************)
(* C2: FOLLOW_UP record identity (main.py). Every committed FOLLOW_UP turn *)
(* carries the same plans, in the same order, as the turn before it in the *)
(* log, hence so does every run of consecutive FOLLOW_UP turns; and the    *)
(* step that commits one appends a turn with the plans of the turn that    *)
(* was last before the step.                                               *)
(***************************************************************************)
C2_FollowUpRecordIdentity ==
    entry = "main.py" =>
        /\ \A i \in 2..Len(history) :
              kinds[i] = "FOLLOW_UP" =>
                  /\ history[i].has_plans /\ history[i - 1].has_plans
                  /\ history[i].plans = history[i - 1].plans
        /\ (RoutedAs("FOLLOW_UP") /\ last.pre_history # <<>> /\ AnsweredOk) =>
              /\ Len(history) = Len(last.pre_history) + 1
              /\ history[Len(history)].has_plans
              /\ history[Len(history)].plans = last.pre_history[Len(last.pre_history)].plans

\* a comparison of three plans, then two follow-up questions in a row
C2_Witness ==
    /\ entry = "main.py"
    /\ kinds = <<"NEW", "FOLLOW_UP", "FOLLOW_UP">>
    /\ Len(history[3].plans) = 3
    /\ last.r.outcome = "follow_up"

(***************************************************************************)
(* C3: in app.py, when a /chat request classified FOLLOW_UP comes right    *)
(* after a /chat request that committed a NEW turn, the generation call    *)
(* gets exactly the (non-empty) plans the NEW request retrieved.           *)
(***************************************************************************)
CommittedNew(step) == step.op = "chat_endpoint" /\ step.r.outcome = "new"

NewPlans(step) == step.r.history[Len(step.r.history)].plans

ClassifiedFollowUp(step) ==
    /\ step.op = "chat_endpoint" /\ step.r.calls # <<>> /\ ~step.llm1.raises
    /\ step.r.understanding.kind = "dict"
    /\ {"question_type", "premium_amounts"} \subseteq step.r.understanding.has
    /\ step.r.understanding.val["question_type"] = VStr("FOLLOW_UP")

\* the plan texts the generation call was given in this step
GeneratorPlanTexts(step) ==
    { step.r.calls[i].messages[Len(step.r.calls[i].messages)].plan_text :
        i \in {j \in DOMAIN step.r.calls : step.r.calls[j].fn = "llm2"} }

C3_FollowUpAfterNewSeesRecords ==
    [][ (entry = "app.py" /\ CommittedNew(last) /\ ClassifiedFollowUp(last')) =>
            /\ NewPlans(last) # <<>>
            /\ GeneratorPlanTexts(last') =
                  { [none |-> FALSE,
                     contents |-> [i \in DOMAIN NewPlans(last) |->
                                      page_content(NewPlans(last)[i])]] } ]_vars

(***************************************************************************)
(* C4: the turn log and the question log have the same length in every     *)
(* state of either program (after the start, any chat step, a reset), and  *)
(* so have the two logs chat() returns.                                    *)
(***************************************************************************)
C4_LogsSameLength ==
    /\ Len(history) = Len(prev_questions)
    /\ Len(SessionHistory) = Len(SessionQuestions)
    /\ (ChatCalled /\ last.r.outcome \notin {"raised", "none"}) =>
          Len(last.r.history) = Len(last.r.prev_questions)

\* a rejected utterance after two committed turns
C4_Witness ==
    /\ Len(TurnLog) = 2
    /\ Len(QuestionLog) = 2
    /\ last.r.outcome = "invalid"

(***************************************************************************)
(* C5: when the classifier returns INVALID, chat() returns the instruction *)
(* with the classifier's reason in it, returns both logs as they were, and *)
(* calls neither the store nor the generation call.                        *)
(***************************************************************************)
C5_InvalidRejected ==
    (HasKeys(ContractKeys) /\ last.r.understanding.val["question_type"] = VStr("INVALID")) =>
        /\ last.r.outcome = "invalid"
        /\ last.r.response =
              Resp("provide_2_3_premiums", last.r.understanding.val["reason"], VNull, "")
        /\ last.r.history = last.pre_history
        /\ last.r.prev_questions = last.pre_questions
        /\ TurnLog = last.pre_history
        /\ QuestionLog = last.pre_questions
        /\ CallsTo("similarity_search") = {}
        /\ CallsTo("llm2") = {}

\* "show me 18000 plan" after one committed turn
C5_Witness ==
    /\ HasKeys(ContractKeys)
    /\ last.r.understanding.val["question_type"] = VStr("INVALID")
    /\ last.r.response.reason = VStr("Only 1 premium, need at least 2")
    /\ Len(TurnLog) = 1

(***************************************************************************)
(* C6: when the intent is NEW and the store has no plan for any of the     *)
(* premiums (every lookup answered), chat() returns the no-plans-found     *)
(* message with the premiums in it, returns both logs as they were, and    *)
(* does not call the generation call.                                      *)
(***************************************************************************)
NoPremiumMatches ==
    /\ RoutedAs("NEW")
    /\ Premiums.kind = "list"
    /\ \A i \in DOMAIN Premiums.items : ~HasMatch(Premiums.items[i])
    /\ \A i \in CallsTo("similarity_search") : ~last.r.calls[i].raised

C6_NoMatchRejected ==
    NoPremiumMatches =>
        /\ last.r.outcome = "no_match"
        /\ last.r.response = Resp("no_plans_found", VNull, Premiums, "")
        /\ last.r.history = last.pre_history
        /\ last.r.prev_questions = last.pre_questions
        /\ TurnLog = last.pre_history
        /\ QuestionLog = last.pre_questions
        /\ CallsTo("llm2") = {}

\* two unknown premiums after one committed turn
C6_Witness ==
    /\ NoPremiumMatches
    /\ Premiums.items = <<99000, 77000>>
    /\ Cardinality(CallsTo("similarity_search")) = 2
    /\ Len(TurnLog) = 1

(***************************************************************************)
(* C7: when the intent is FOLLOW_UP and the turn log is empty, chat()      *)
(* returns the ask-a-comparison-first message, both logs stay empty, and   *)
(* neither the store nor the generation call is called.                    *)
(***************************************************************************)
FollowUpWithoutHistory == RoutedAs("FOLLOW_UP") /\ last.pre_history = <<>>

C7_FollowUpWithoutHistory ==
    FollowUpWithoutHistory =>
        /\ last.r.outcome = "empty_history"
        /\ last.r.response = Resp("ask_comparison_first", VNull, VNull, "")
        /\ last.r.history = <<>>
        /\ last.r.prev_questions = <<>>
        /\ TurnLog = <<>>
        /\ QuestionLog = <<>>
        /\ CallsTo("similarity_search") = {}
        /\ CallsTo("llm2") = {}

\* a first utterance at the command line that is classified FOLLOW_UP
C7_Witness ==
    /\ FollowUpWithoutHistory
    /\ entry = "main.py"
    /\ last.input = <<" ", "compare", " ">>
    /\ cli_pc = "running"

(***************************************************************************)
(* C8: if the text the classification call returned does not parse into    *)
(* the classifier contract (an object with question_type one of NEW,       *)
(* FOLLOW_UP, INVALID, premium_amounts a list of numbers or null, reason a *)
(* string), understand_question() returns the intent INVALID whose reason  *)
(* names the parse error (in the words of the contract or of the code).    *)
(***************************************************************************)
IsContract(v) ==
    /\ v.kind = "dict"
    /\ ContractKeys \subseteq v.has
    /\ v.val["question_type"] \in {VStr("NEW"), VStr("FOLLOW_UP"), VStr("INVALID")}
    /\ v.val["premium_amounts"].kind \in {"null", "list"}
    /\ v.val["reason"].kind = "str"

ParsesToContract(text) == json_loads(text).ok /\ IsContract(json_loads(text).v)

C8_ParseErrorDegrades ==
    (ClassifierReturned /\ ~ParsesToContract(last.llm1.content)) =>
        /\ last.r.understanding.kind = "dict"
        /\ ContractKeys \subseteq last.r.understanding.has
        /\ last.r.understanding.val["question_type"] = VStr("INVALID")
        /\ last.r.understanding.val["reason"] \in
              {VStr("parse error"), VStr("Error parsing AI response")}

(***************************************************************************)
(* C9: for every text the classification call returns, the classifier's    *)
(* result is one of the three intents, and, no collaborator failing,       *)
(* chat() takes one of the three routes and returns its triple.            *)
(***************************************************************************)
C9_OneOfThreeIntents ==
    ClassifierReturned =>
        /\ last.r.understanding.kind = "dict"
        /\ "question_type" \in last.r.understanding.has
        /\ last.r.understanding.val["question_type"] \in
              {VStr("NEW"), VStr("FOLLOW_UP"), VStr("INVALID")}
        /\ ~CollaboratorRaised =>
              last.r.outcome \in {"invalid", "no_match", "new", "empty_history", "follow_up"}

(***************************************************************************)
(* C10: whenever chat() handles an utterance as NEW (it looks premiums up  *)
(* in the store, and possibly commits a turn), the premiums are 2 or 3     *)
(* distinct numbers, and these are the keys of the lookups.                *)
(***************************************************************************)
HandledAsNew ==
    /\ ChatCalled
    /\ \/ CallsTo("similarity_search") # {}
       \/ last.r.outcome = "new"

C10_NewHasTwoOrThreeDistinct ==
    HandledAsNew =>
        /\ Premiums.kind = "list"
        /\ Len(Premiums.items) \in {2, 3}
        /\ \A i, j \in DOMAIN Premiums.items :
              i # j => Premiums.items[i] # Premiums.items[j]
        /\ \A i \in CallsTo("similarity_search") :
              \E k \in DOMAIN Premiums.items : last.r.calls[i].key = Premiums.items[k]

(***************************************************************************)
(* C11: retrieval order. When chat() fetches for a list of premiums and    *)
(* every lookup answers, the plans get_plans returns (those given to the   *)
(* generation call, and committed with the turn) are the plans of the      *)
(* premiums that have a match, in the order the premiums were supplied,    *)
(* whichever way the store ranks its documents.                            *)
(***************************************************************************)
Fetched ==
    /\ RoutedAs("NEW")
    /\ Premiums.kind = "list"
    /\ \A i \in CallsTo("similarity_search") : ~last.r.calls[i].raised

\* the supplied premiums that have a match in the store, in their order
MatchedKeys == SelectSeq(Premiums.items, HasMatch)

\* the documents whose page_content the generation call was given
GivenDocs(i) ==
    LET given == last.r.calls[i].messages[Len(last.r.calls[i].messages)].plan_text.contents
    IN [k \in DOMAIN given |-> CHOOSE d \in store : page_content(d) = given[k]]

InKeyOrder(plans) ==
    /\ Len(plans) = Len(MatchedKeys)
    /\ \A k \in DOMAIN plans : plans[k] \in store /\ plans[k].premium = MatchedKeys[k]

C11_RetrievalOrder ==
    Fetched =>
        /\ \A i \in CallsTo("llm2") : InKeyOrder(GivenDocs(i))
        /\ last.r.outcome = "new" => InKeyOrder(last.r.history[Len(last.r.history)].plans)
        /\ MatchedKeys # <<>> => CallsTo("llm2") # {}

\* the premiums 99000, 22500, 18000: the first has no plan, the others come
\* in the order opposite to the one the collection holds them in
C11_Witness ==
    /\ Fetched
    /\ Premiums.items = <<99000, 22500, 18000>>
    /\ last.r.outcome = "new"
    /\ last.r.history[Len(last.r.history)].plans = <<Doc(2, 22500), Doc(1, 18000)>>

(***************************************************************************)
(* C12: one lookup per key. When chat() fetches for a list of premiums and *)
(* every lookup answers, get_plans has made exactly one lookup per         *)
(* supplied premium, in order, filtered on that premium; the plans it      *)
(* returns hold at most one plan per supplied premium, none for a premium  *)
(* without a match, and are never more than the premiums supplied.         *)
(***************************************************************************)
Lookups == SortedSeq(CallsTo("similarity_search"))

Occurrences(seq, v) == Cardinality({k \in DOMAIN seq : seq[k] = v})

AtMostOnePerKey(plans) ==
    /\ Len(plans) <= Len(Premiums.items)
    /\ \A k \in DOMAIN plans :
          /\ \E j \in DOMAIN Premiums.items : Premiums.items[j] = plans[k].premium
          /\ Occurrences([j \in DOMAIN plans |-> plans[j].premium], plans[k].premium)
                <= Occurrences(Premiums.items, plans[k].premium)

C12_OneLookupPerKey ==
    Fetched =>
        /\ Len(Lookups) = Len(Premiums.items)
        /\ \A k \in DOMAIN Lookups : last.r.calls[Lookups[k]].key = Premiums.items[k]
        /\ \A i \in CallsTo("llm2") : AtMostOnePerKey(GivenDocs(i))
        /\ last.r.outcome = "new" => AtMostOnePerKey(last.r.history[Len(last.r.history)].plans)
        /\ ~CollaboratorRaised => last.r.outcome \in {"new", "no_match"}

\* three premiums; two documents carry the third, and one of them is returned
C12_Witness ==
    /\ Fetched
    /\ Premiums.items = <<18000, 22500, 28000>>
    /\ Len(Lookups) = 3
    /\ last.r.outcome = "new"
    /\ last.r.history[Len(last.r.history)].plans = <<Doc(1, 18000), Doc(2, 22500), Doc(4, 28000)>>

(***************************************************************************)
(* C13: no re-fetch. Handling a FOLLOW_UP with a non-empty turn log makes  *)
(* no lookup in the store; the plans given to the generation call and      *)
(* committed with the turn are the ones the last turn holds, also when the *)
(* collection was rebuilt without them after they were fetched.            *)
(***************************************************************************)
FollowUpWithHistory == RoutedAs("FOLLOW_UP") /\ last.pre_history # <<>>

CachedPlans == PlansOf(last.pre_history[Len(last.pre_history)])

\* the plan context of a generation call
PlanTextOf(i) == last.r.calls[i].messages[Len(last.r.calls[i].messages)].plan_text

C13_FollowUpNoRefetch ==
    FollowUpWithHistory =>
        /\ CallsTo("similarity_search") = {}
        /\ Cardinality(CallsTo("llm2")) = 1
        /\ \A i \in CallsTo("llm2") :
              /\ PlanTextOf(i).none = (CachedPlans = <<>>)
              /\ PlanTextOf(i).contents =
                    [k \in DOMAIN CachedPlans |-> page_content(CachedPlans[k])]
        /\ last.r.outcome = "follow_up" =>
              last.r.history[Len(last.r.history)].plans = CachedPlans

\* three plans were fetched, the collection was rebuilt without the third,
\* and the follow-up still works on the three
C13_Witness ==
    /\ FollowUpWithHistory
    /\ entry = "main.py"
    /\ last.r.outcome = "follow_up"
    /\ Len(CachedPlans) = 3
    /\ CachedPlans[3] \notin store
    /\ history[Len(history)].plans = CachedPlans

(***************************************************************************)
(* C14: when the classification call, a lookup or the generation call      *)
(* raises during a POST /chat, the answer is a failure (HTTP 500, success  *)
(* false, no response) and the session's turn log and question log are     *)
(* what they were before the request.                                      *)
(***************************************************************************)
WebFailure == last.op = "chat_endpoint" /\ ChatCalled /\ CollaboratorRaised

C14_WebFailureKeepsSession ==
    WebFailure =>
        /\ last.http.status = 500
        /\ ~last.http.success
        /\ last.http.response = NoResp
        /\ SessionHistory = last.pre_history
        /\ SessionQuestions = last.pre_questions

\* the generation call raises after the plans were fetched, one turn being
\* in the session
C14_Witness ==
    /\ WebFailure
    /\ \E i \in CallsTo("llm2") : last.r.calls[i].raised
    /\ CallsTo("similarity_search") # {}
    /\ Len(SessionHistory) = 1
    /\ Len(SessionQuestions) = 1

(***************************************************************************)
(* C15: the answer POST /chat gives after a collaborator raised is a       *)
(* generic one that does not depend on what the raised error says: had the *)
(* exception carried any other message, the answer would be the same.      *)
(***************************************************************************)
C15_FailureResponseGeneric ==
    WebFailure =>
        \A other \in ErrorTexts : failure_response(other) = last.http

(***************************************************************************)
(* C16: at the command line, when a collaborator raises while an utterance *)
(* is processed, the loop catches it: history and prev_questions keep      *)
(* their values and the loop goes on to read the next utterance.           *)
(***************************************************************************)
CliFailure == last.op = "cli_chat" /\ ChatCalled /\ CollaboratorRaised

C16_CliFailureCaught ==
    CliFailure =>
        /\ cli_pc = "running"
        /\ history = last.pre_history
        /\ prev_questions = last.pre_questions

(***************************************************************************)
(* C17: idempotent rejection. After an utterance was rejected as INVALID,  *)
(* both logs are what they were before it, and submitting the same         *)
(* utterance again, the classifier giving the same text, makes the same    *)
(* classification call (same prior questions), returns the same response   *)
(* and the same logs: so N submissions in a row give N identical responses *)
(* and leave the logs as they were before the first.                       *)
(***************************************************************************)
RejectedInvalid ==
    /\ last.op \in {"cli_chat", "chat_endpoint"}
    /\ HasKeys(ContractKeys)
    /\ last.r.understanding.val["question_type"] = VStr("INVALID")

\* what the collaborators do when the utterance is submitted again
SameAgain ==
    [llm1 |-> last.llm1, llm2 |-> [raises |-> FALSE, error |-> "", content |-> "answer"],
     rank |-> <<1, 2, 3, 4>>, fail_at |-> 0, store |-> store]

C17_IdempotentRejection ==
    RejectedInvalid =>
        /\ TurnLog = last.pre_history
        /\ QuestionLog = last.pre_questions
        /\ \A again \in {chat(strip(last.input), TurnLog, QuestionLog, SameAgain)} :
              /\ again.outcome = "invalid"
              /\ again.response = last.r.response
              /\ again.calls = last.r.calls
              /\ again.history = last.pre_history
              /\ again.prev_questions = last.pre_questions

\* a rejection in a web session that holds two turns
C17_Witness ==
    /\ RejectedInvalid
    /\ entry = "app.py"
    /\ Len(TurnLog) = 2
    /\ ~last.r.calls[1].prev_context.none
    /\ last.http.status = 200

(***************************************************************************)
(* C18: every generation call gets one system message, then, for each turn *)
(* of the turn log as it was before the step, oldest first, the turn's     *)
(* utterance and the turn's response, then one user message with the       *)
(* current question: 2 * Len(turn log) + 2 messages, of which only the     *)
(* last comes from the current utterance.                                  *)
(***************************************************************************)
MessagesOf(i) == last.r.calls[i].messages

C18_MessageSequence ==
    \A i \in CallsTo("llm2") :
        /\ Len(MessagesOf(i)) = 2 * Len(last.pre_history) + 2
        /\ MessagesOf(i)[1].role = "system"
        /\ \A k \in DOMAIN last.pre_history :
              /\ MessagesOf(i)[2 * k].role = "human"
              /\ MessagesOf(i)[2 * k].user = last.pre_history[k].user
              /\ MessagesOf(i)[2 * k + 1].role = "ai"
              /\ MessagesOf(i)[2 * k + 1].bot = last.pre_history[k].bot
        /\ MessagesOf(i)[Len(MessagesOf(i))].role = "human"
        /\ MessagesOf(i)[Len(MessagesOf(i))].user = strip(last.input)
        /\ \A k \in 1..(Len(MessagesOf(i)) - 1) : MessagesOf(i)[k].plan_text = NoPlanText

\* a third utterance, the two turns before it being different questions
C18_Witness ==
    /\ CallsTo("llm2") # {}
    /\ Len(last.pre_history) = 2
    /\ last.pre_history[1].user # last.pre_history[2].user
    /\ last.pre_history[2].user # strip(last.input)
    /\ last.r.outcome = "follow_up"

(***************************************************************************)
(* C19: when generate_answer is called with no plans (a FOLLOW_UP whose    *)
(* last turn holds none), the plan context of the generation call is the   *)
(* fixed "No plans available" marker with no plan content in it; and the   *)
(* marker is given in no other case.                                       *)
(***************************************************************************)
CalledWithoutPlans == FollowUpWithHistory /\ CachedPlans = <<>>

C19_NoPlansMarker ==
    \A i \in CallsTo("llm2") :
        /\ CalledWithoutPlans => (PlanTextOf(i).none /\ PlanTextOf(i).contents = <<>>)
        /\ PlanTextOf(i).none => CalledWithoutPlans

\* a follow-up in a web session, whose stored turns carry no plans
C19_Witness ==
    /\ CalledWithoutPlans
    /\ CallsTo("llm2") # {}
    /\ \A i \in CallsTo("llm2") : PlanTextOf(i) = NoPlanText
    /\ last.r.outcome = "follow_up"

(***************************************************************************)
(* C20: POST /reset leaves the session with an empty turn log and an empty *)
(* question log, whatever they held; and a POST /chat classified FOLLOW_UP *)
(* that comes right after a reset is answered with the ask-a-comparison-   *)
(* first message, its classification call having got no prior questions,   *)
(* and leaves both logs empty.                                             *)
(***************************************************************************)
C20_ResetClearsSession ==
    [][ /\ last'.op = "reset" =>
              /\ session'.has_history /\ session'.history = <<>>
              /\ session'.has_prev_questions /\ session'.prev_questions = <<>>
        /\ (last.op = "reset" /\ ClassifiedFollowUp(last')) =>
              /\ last'.r.outcome = "empty_history"
              /\ last'.r.response = Resp("ask_comparison_first", VNull, VNull, "")
              /\ last'.http = Http(200, TRUE, last'.r.response, "")
              /\ Len(last'.r.calls) = 1
              /\ last'.r.calls[1].prev_context = [none |-> TRUE, lines |-> <<>>]
              /\ session'.history = <<>>
              /\ session'.prev_questions = <<>> ]_vars

\* a reset of a session that held two turns and two questions
C20_Witness ==
    /\ last.op = "reset"
    /\ Len(last.pre_history) = 2
    /\ Len(last.pre_questions) = 2
    /\ SessionHistory = <<>>
    /\ SessionQuestions = <<>>

(***************************************************************************)
(* app.py serving several browsers. flask.session is a signed cookie: the  *)
(* browser sends it with each request and stores the one the response      *)
(* carries; the process keeps llm1, llm2 and vector_db and no conversation.*)
(***************************************************************************)
\* the logs a cookie carries
CookieHistory(cookie) == IF cookie.has_history THEN cookie.history ELSE <<>>
CookieQuestions(cookie) == IF cookie.has_prev_questions THEN cookie.prev_questions ELSE <<>>

\* what a browser holds: its cookie, and the observations on its session
Held(cookie, ks, n) == [cookie |-> cookie, kinds |-> ks, n_committed |-> n]

\* the cookie a browser holds
CookieOf(b) == IF b = browser THEN session ELSE jar[b].cookie

\* the next request comes from another browser, with that browser's cookie
Switch(b) ==
    /\ entry = "app.py"
    /\ b # browser
    /\ browser' = b
    /\ session' = jar[b].cookie
    /\ kinds' = jar[b].kinds
    /\ n_committed' = jar[b].n_committed
    /\ jar' = [jar EXCEPT ![browser] = Held(session, kinds, n_committed)]
    /\ last' = Step("switch", <<>>, NoLlm1, NoResult,
                    CookieHistory(jar[b].cookie), CookieQuestions(jar[b].cookie), NoHttp)
    /\ UNCHANGED <<entry, store, history, prev_questions, cli_pc>>
    /\ UNCHANGED <<inflight, clock, processing_tasks, uploads, streams>>

\* the classifications and failures the browsers' requests meet
SessionTexts ==
    { Contract("NEW", NumArray(<<22500, 18000>>), "2 premiums to compare"),
      Contract("FOLLOW_UP", <<Nul>>, "Asking about previous results"),
      Contract("INVALID", <<Nul>>, "Not insurance related") }

SessionEnvs ==
    { e \in Envs : /\ e.rank = <<1, 2, 3, 4>> /\ e.fail_at = 0 /\ ~e.llm2.raises
                   /\ e.llm1.raises => e.llm1.error = "connection timed out"
                   /\ ~e.llm1.raises => e.llm1.content \in SessionTexts }

\* what each browser types, so that the two conversations differ
Typed(b) == IF b = "a" THEN <<" ", "compare", " ">> ELSE <<"which">>

SessionRequests(b) == { req \in WebRequests : req.message \in {<<>>, <<" ">>, Typed(b)} }

InitSessions == Init /\ entry = "app.py"

NextSessions ==
    \/ Home
    \/ \E req \in SessionRequests(browser) : ChatRejected(req)
    \/ \E req \in SessionRequests(browser), e \in SessionEnvs : ChatEndpoint(req, e)
    \/ reset_conversation
    \/ \E b \in Browsers : Switch(b)

SpecSessions == InitSessions /\ [][NextSessions]_vars

(***************************************************************************)
(* C21: sessions are independent. A request of one browser (an utterance,  *)
(* a reset, a page load) leaves the cookie, and so the turn log and the    *)
(* question log, of every other browser as it was; and what chat() is      *)
(* given in a /chat request comes from the cookie of the browser that sent *)
(* it: the classifier is shown that browser's question log, the generator  *)
(* is replayed that browser's turn log, and the logs written back are that *)
(* browser's logs with at most its own utterance added.                    *)
(***************************************************************************)
\* the step served a /chat request of the browser, and chat() was called
ServedChat ==
    /\ browser' = browser
    /\ last'.op = "chat_endpoint"
    /\ last'.r.calls # <<>>

\* the turns the messages of a generation call replay
Replayed(messages) ==
    [k \in 1..((Len(messages) - 2) \div 2) |->
        <<messages[2 * k].user, messages[2 * k + 1].bot>>]

OwnTurns(cookie) ==
    [k \in DOMAIN CookieHistory(cookie) |->
        <<CookieHistory(cookie)[k].user, CookieHistory(cookie)[k].bot>>]

C21_SessionsIndependent ==
    [][ /\ \A b \in Browsers :
              (b # browser \/ browser' # browser) => CookieOf(b)' = CookieOf(b)
        /\ ServedChat =>
              /\ \A i \in DOMAIN last'.r.calls :
                    /\ last'.r.calls[i].fn = "llm1" =>
                          last'.r.calls[i].prev_context
                              = PrevContext(CookieQuestions(session))
                    /\ last'.r.calls[i].fn = "llm2" =>
                          Replayed(last'.r.calls[i].messages) = OwnTurns(session)
              /\ CookieQuestions(session') \in
                    { CookieQuestions(session),
                      Append(CookieQuestions(session), strip(last'.input)) }
              /\ SubSeq(OwnTurns(session'), 1, Len(OwnTurns(session)))
                    = OwnTurns(session) ]_vars

\* the second browser's utterance was committed while the first browser
\* holds a conversation of its own, with other questions
C21_Witness ==
    /\ browser = "b"
    /\ last.op = "chat_endpoint"
    /\ last.r.calls # <<>>
    /\ Len(CookieHistory(session)) = Len(last.pre_history) + 1
    /\ CookieHistory(jar["a"].cookie) # <<>>
    /\ CookieQuestions(jar["a"].cookie) # last.pre_questions

(***************************************************************************)
(* app.py serving overlapping requests of one browser (app.run serves each *)
(* request in a thread of its own). A request carries the cookie the       *)
(* browser held when it was sent; chat_endpoint reads the logs from that   *)
(* cookie, and the browser stores the cookie of each response as it comes. *)
(***************************************************************************)
\* POST /chat leaves the browser, with a message that passes the checks
chat_request(req) ==
    /\ entry = "app.py"
    /\ Cardinality(inflight) < MaxInFlight
    /\ n_committed + Cardinality(inflight) < MaxTurns
    /\ req.json = "str" /\ strip(req.message) # <<>>
    /\ \E id \in 1..MaxInFlight :
          /\ \A q \in inflight : q.id # id
          /\ inflight' = inflight \cup {[id |-> id, message |-> req.message,
                                         cookie |-> session]}
    /\ UNCHANGED <<entry, store, history, prev_questions, cli_pc, session, kinds,
                   n_committed, last>>
    /\ UNCHANGED <<browser, jar, clock, processing_tasks, uploads, streams>>

\* chat_endpoint for a request in flight: the logs of the request's cookie,
\* chat(), the session rewritten; the response's cookie reaches the browser
chat_response(q, e) ==
    /\ entry = "app.py"
    /\ q \in inflight
    /\ inflight' = inflight \ {q}
    /\ \E r \in {app_chat(strip(q.message), CookieHistory(q.cookie),
                           CookieQuestions(q.cookie), EnvWith(e, store))} :
          IF r.outcome \in {"raised", "none"}
          THEN /\ last' = Step("chat_endpoint", q.message, e.llm1, r,
                               CookieHistory(q.cookie), CookieQuestions(q.cookie),
                               failure_response(IF r.outcome = "none" THEN "TypeError"
                                                ELSE r.error))
               /\ UNCHANGED <<session, kinds, n_committed>>
          ELSE /\ last' = Step("chat_endpoint", q.message, e.llm1, r,
                               CookieHistory(q.cookie), CookieQuestions(q.cookie),
                               Http(200, TRUE, r.response, ""))
               /\ session' = [has_history |-> TRUE, history |-> Serializable(r.history),
                              has_prev_questions |-> TRUE,
                              prev_questions |-> r.prev_questions]
               /\ kinds' = IF Committed(r) THEN Append(kinds, KindOf(r)) ELSE kinds
               /\ n_committed' = IF Committed(r) THEN n_committed + 1 ELSE n_committed
    /\ UNCHANGED <<entry, store, history, prev_questions, cli_pc>>
    /\ UNCHANGED <<browser, jar, clock, processing_tasks, uploads, streams>>

InitOverlap == Init /\ entry = "app.py"

NextOverlap ==
    \/ \E req \in WebRequests : chat_request(req)
    \/ \E q \in inflight, e \in SessionEnvs : chat_response(q, e)
    \/ \E req \in WebRequests : ChatRejected(req)

SpecOverlap == InitOverlap /\ [][NextOverlap]_vars

(***************************************************************************)
(* C22: no lost update between overlapping requests of one session. A      *)
(* /chat response that commits a turn leaves the browser with the turn log *)
(* it held before, one turn longer: the turns committed by the requests    *)
(* answered earlier are all still there.                                   *)
(***************************************************************************)
\* the step answered a request in flight and committed its turn
CommittedInFlight ==
    /\ inflight' # inflight
    /\ inflight' \subseteq inflight
    /\ n_committed' = n_committed + 1

C22_NoLostUpdate ==
    [][ CommittedInFlight =>
            /\ Len(CookieHistory(session')) = Len(CookieHistory(session)) + 1
            /\ SubSeq(CookieHistory(session'), 1, Len(CookieHistory(session)))
                  = CookieHistory(session) ]_vars

(***************************************************************************)
(* C23: the classifier is only ever invoked with a non-empty, trimmed      *)
(* utterance. Every classification call of a serving step is given a text  *)
(* that is not empty and neither starts nor ends with a blank; and a /chat *)
(* request or a typed line whose message is missing, no string, empty or   *)
(* all blanks is answered without a call of chat() and leaves the turn log *)
(* and the question log as they were.                                      *)
(***************************************************************************)
Trimmed(text) == text # <<>> /\ text[1] # " " /\ text[Len(text)] # " "

Blank(text) == \A i \in DOMAIN text : text[i] = " "

C23_ClassifierGetsTrimmedText ==
    /\ \A i \in CallsTo("llm1") : Trimmed(last.r.calls[i].question)
    /\ (last.op \in {"cli_skip", "cli_chat", "chat_endpoint"} /\ Blank(last.input)) =>
            /\ last.r.calls = <<>>
            /\ TurnLog = last.pre_history
            /\ QuestionLog = last.pre_questions

\* a message of blanks is rejected by /chat in a session that has a turn
C23_Witness ==
    /\ last.op = "chat_endpoint"
    /\ last.input = <<" ">>
    /\ last.http.status = 400
    /\ TurnLog # <<>>
    /\ QuestionLog # <<>>

(***************************************************************************)
(* C24: the logs are append-only and committed turns immutable. For every  *)
(* chat() step that returns, the turn log and the question log it was      *)
(* given are prefixes of the logs it returns; a committing step returns    *)
(* them longer by exactly one element, the turn (utterance, response,      *)
(* records) and the utterance, a step that commits nothing returns them as *)
(* they were; and the logs the program holds after any chat step, failed   *)
(* ones included, begin with the logs it held before.                      *)
(***************************************************************************)
IsPrefix(s, t) == Len(s) <= Len(t) /\ SubSeq(t, 1, Len(s)) = s

ChatReturned == ChatCalled /\ last.r.outcome \notin {"raised", "none"}

C24_LogsAppendOnly ==
    /\ ChatCalled =>
          /\ IsPrefix(last.pre_history, TurnLog)
          /\ IsPrefix(last.pre_questions, QuestionLog)
    /\ ChatReturned =>
          /\ IsPrefix(last.pre_history, last.r.history)
          /\ IsPrefix(last.pre_questions, last.r.prev_questions)
    /\ (ChatReturned /\ ~Committed(last.r)) =>
          /\ last.r.history = last.pre_history
          /\ last.r.prev_questions = last.pre_questions
    /\ (ChatReturned /\ Committed(last.r)) =>
          /\ Len(last.r.history) = Len(last.pre_history) + 1
          /\ last.r.history[Len(last.r.history)].user = strip(last.input)
          /\ last.r.history[Len(last.r.history)].bot = last.r.response.text
          /\ last.r.history[Len(last.r.history)].has_plans
          /\ last.r.prev_questions = Append(last.pre_questions, strip(last.input))
          /\ Len(TurnLog) = Len(last.pre_history) + 1
          /\ QuestionLog = Append(last.pre_questions, strip(last.input))

\* a follow-up committed as the third turn
C24_Witness ==
    /\ ChatReturned
    /\ last.r.outcome = "follow_up"
    /\ Len(last.pre_history) = 2
    /\ Len(TurnLog) = 3

(***************************************************************************)
(* C25: the order of the collaborator calls within one chat() step. The    *)
(* classifier is called exactly once, first; the lookups of the retriever  *)
(* follow in one block and only when the classification is NEW; the        *)
(* generator is called at most once, after every lookup, and only after a  *)
(* NEW fetch that found a plan or on FOLLOW_UP with a non-empty turn log,  *)
(* never when the classification is INVALID; and a turn is appended only   *)
(* when the generator was called and returned.                             *)
(***************************************************************************)
C25_CallOrder ==
    ChatCalled =>
        /\ CallsTo("llm1") = {1}
        /\ Cardinality(CallsTo("llm2")) <= 1
        /\ \A i \in CallsTo("llm2") : i = Len(last.r.calls)
        /\ \A i \in CallsTo("similarity_search"), j \in CallsTo("llm2") : i < j
        /\ CallsTo("similarity_search") # {} => RoutedAs("NEW")
        /\ CallsTo("llm2") # {} =>
              \/ /\ RoutedAs("NEW")
                 /\ CallsTo("similarity_search") # {}
                 /\ \E i \in CallsTo("similarity_search") : HasMatch(last.r.calls[i].key)
              \/ /\ RoutedAs("FOLLOW_UP")
                 /\ last.pre_history # <<>>
                 /\ CallsTo("similarity_search") = {}
        /\ RoutedAs("INVALID") => DOMAIN last.r.calls = {1}
        /\ Len(TurnLog) > Len(last.pre_history) =>
              \E i \in CallsTo("llm2") : ~last.r.calls[i].raised

\* a NEW step of three lookups and one generation call, committed
C25_Witness ==
    /\ ChatCalled
    /\ Cardinality(CallsTo("similarity_search")) = 3
    /\ Cardinality(CallsTo("llm2")) = 1
    /\ Len(TurnLog) = Len(last.pre_history) + 1

(***************************************************************************)
(* C26: in the command-line program every committed turn refers to at      *)
(* least one plan, and the generator is never called without plans: each   *)
(* turn of the log has a non-empty 'plans' list, and the plan context of   *)
(* every generation call lists at least one plan.                          *)
(***************************************************************************)
PlanContextOf(i) == last.r.calls[i].messages[Len(last.r.calls[i].messages)].plan_text

C26_CliTurnsHaveRecords ==
    entry = "main.py" =>
        /\ \A k \in DOMAIN history : history[k].has_plans /\ history[k].plans # <<>>
        /\ \A i \in CallsTo("llm2") :
              ~PlanContextOf(i).none /\ PlanContextOf(i).contents # <<>>

\* a follow-up committed on the command line after two turns
C26_Witness ==
    /\ entry = "main.py"
    /\ last.r.outcome = "follow_up"
    /\ Len(last.pre_history) = 2
    /\ Len(history) = 3

(***************************************************************************)
(* C27: the question log is the sequence of the utterances of the turn     *)
(* log. In every state the two logs are equally long and, index by index,  *)
(* the question is the utterance of the turn; so the previous questions    *)
(* shown to the classifier in a chat step are the utterances of the turns  *)
(* committed before it.                                                    *)
(***************************************************************************)
UsersOf(hist) == [i \in DOMAIN hist |-> hist[i].user]

C27_QuestionsAreTurnUtterances ==
    /\ QuestionLog = UsersOf(TurnLog)
    /\ \A i \in CallsTo("llm1") :
          last.r.calls[i].prev_context = PrevContext(UsersOf(last.pre_history))

\* a session of two turns with different questions, a third being classified
C27_Witness ==
    /\ entry = "app.py"
    /\ Len(last.pre_history) = 2
    /\ last.pre_questions[1] # last.pre_questions[2]
    /\ CallsTo("llm1") # {}
    /\ Len(TurnLog) = 3

(***************************************************************************)
(* C28: the two dialogue states, AwaitingFirstComparison (empty turn log)  *)
(* and HasContext (a turn or more). A step leaves AwaitingFirstComparison  *)
(* only by committing a NEW turn whose plans were fetched in that step, so *)
(* the first turn of every log is a NEW turn; a step leaves HasContext for *)
(* AwaitingFirstComparison only if it is a reset; and in HasContext every  *)
(* utterance classified FOLLOW_UP, the generation call returning, commits  *)
(* a FOLLOW_UP turn.                                                       *)
(***************************************************************************)
AwaitingFirstComparison == TurnLog = <<>>
HasContext == TurnLog # <<>>

C28_DialogueStates ==
    [][ /\ (AwaitingFirstComparison /\ HasContext') =>
              /\ last'.r.outcome = "new"
              /\ last'.pre_history = <<>>
              /\ \E i \in DOMAIN last'.r.calls :
                    /\ last'.r.calls[i].fn = "similarity_search"
                    /\ \E d \in store : d.premium = last'.r.calls[i].key
              /\ last'.r.history[1].plans # <<>>
              /\ Len(TurnLog') = 1
              /\ kinds' = <<"NEW">>
        /\ HasContext' => kinds'[1] = "NEW"
        /\ (HasContext /\ AwaitingFirstComparison') => last'.op = "reset"
        /\ (HasContext /\ last' # last /\ RoutedAs("FOLLOW_UP")' /\ AnsweredOk') =>
              /\ last'.r.outcome = "follow_up"
              /\ Len(TurnLog') = Len(TurnLog) + 1
              /\ TurnLog'[Len(TurnLog')].user = strip(last'.input)
              /\ kinds' = Append(kinds, "FOLLOW_UP") ]_vars

\* a follow-up committed in HasContext, right after the first comparison
C28_Witness ==
    /\ kinds = <<"NEW", "FOLLOW_UP">>
    /\ last.r.outcome = "follow_up"
    /\ Len(TurnLog) = 2

(***************************************************************************)
(* Policy summary assistant (statement_1_policy_summary/app.py): what      *)
(* process_policy() puts on the progress queue of one document.            *)
(*                                                                         *)
(* doc = [chunks, fail_at]: the number of chunks the text splits into, and *)
(* which external call raises (0: none; 1: the PDF loader; 1 + b: the      *)
(* llm.batch of batch b; Batches + 2: the llm.invoke of the final summary).*)
(***************************************************************************)
\* summarize_chunks_parallel: max_concurrency, the size of a batch
max_concurrency == 10

Progress(stage, progress, percent) ==
    [stage |-> stage, progress |-> progress, percent |-> percent]

Min(a, b) == IF a <= b THEN a ELSE b

\* range(0, len(all_messages), max_concurrency): how many batches
Batches(chunks) == (chunks + max_concurrency - 1) \div max_concurrency

\* (mutant) a chunk percentage counted in batches of the whole document
chunk_percent_per_batch(processed, total) == 25 + (processed \div max_concurrency) * 50

\* 25 + int((processed / len(chunks)) * 50), in exact arithmetic; the float
\* product first falls short of an exact whole number at 290 chunks of 500
\* (53 for 54), beyond the documents of the model
chunk_percent(processed, total) == 25 + (processed * 50) \div total

\* the loop of summarize_chunks_parallel from batch b on: one llm.batch and
\* one progress message per batch, until a batch raises
RECURSIVE batch_loop(_, _)
batch_loop(doc, b) ==
    IF b > Batches(doc.chunks)
    THEN [raised |-> FALSE, error |-> "", puts |-> <<>>]
    ELSE IF doc.fail_at = 1 + b
    THEN [raised |-> TRUE, error |-> "llm.batch failed", puts |-> <<>>]
    ELSE LET processed == Min((b - 1) * max_concurrency + max_concurrency, doc.chunks)
             rest == batch_loop(doc, b + 1)
         IN [raised |-> rest.raised, error |-> rest.error,
             puts |-> <<Progress("chunks", processed, chunk_percent(processed, doc.chunks))>>
                          \o rest.puts]

\* the first message, the batches, then elapsed_time/len(chunks) in the
\* closing print, which divides by zero for a text without chunks
summarize_chunks_parallel(doc) ==
    LET loop == batch_loop(doc, 1)
    IN [raised |-> loop.raised \/ doc.chunks = 0,
        error |-> IF loop.raised THEN loop.error
                  ELSE IF doc.chunks = 0 THEN "ZeroDivisionError" ELSE "",
        puts |-> <<Progress("chunks", 0, 25)>> \o loop.puts]

\* 80, 90, llm.invoke, 100
generate_final_summary(doc) ==
    IF doc.fail_at = Batches(doc.chunks) + 2
    THEN [raised |-> TRUE, error |-> "llm.invoke failed",
          puts |-> <<Progress("final", 0, 80), Progress("final", 50, 90)>>]
    ELSE [raised |-> FALSE, error |-> "",
          puts |-> <<Progress("final", 0, 80), Progress("final", 50, 90),
                     Progress("final", 100, 100)>>]

\* the messages process_policy puts, in order, and how it ends
process_policy(doc) ==
    IF doc.fail_at = 1
    THEN [raised |-> TRUE, error |-> "PDF not readable",
          puts |-> <<Progress("extract", 0, 5)>>]
    ELSE LET head == <<Progress("extract", 0, 5), Progress("preprocess", 100, 15),
                       Progress("chunking", 100, 20),
                       Progress("chunking_complete", 100, 25)>>
             map == summarize_chunks_parallel(doc)
             reduce == generate_final_summary(doc)
         IN IF map.raised
            THEN [raised |-> TRUE, error |-> map.error, puts |-> head \o map.puts]
            ELSE [raised |-> reduce.raised, error |-> reduce.error,
                  puts |-> head \o map.puts \o reduce.puts]

(***************************************************************************)
(* Policy summary assistant: POST /upload, the background thread of each   *)
(* upload, and the generators of GET /progress/<task_id>, interleaved.     *)
(* The queues of an upload are objects of their own: the thread and the    *)
(* generators hold them directly, processing_tasks only names them.        *)
(***************************************************************************)
\* the state of the chatbot, which these steps leave alone
chatbot_vars ==
    <<entry, store, history, prev_questions, cli_pc, session, kinds, n_committed, last,
      browser, jar, inflight>>

\* request.files['file'] and its filename; present = FALSE: no 'file' part
File(present, name, dot, ext) == [present |-> present, name |-> name, dot |-> dot, ext |-> ext]

Files ==
    { File(FALSE, "", FALSE, ""), File(TRUE, "", FALSE, ""),
      File(TRUE, "policy", FALSE, ""), File(TRUE, "policy", TRUE, "txt"),
      File(TRUE, "policy", TRUE, "PDF"), File(TRUE, "policy", TRUE, "pdf") }

ALLOWED_EXTENSIONS == {"pdf"}

\* '.' in filename and filename.rsplit('.', 1)[1].lower() in ALLOWED_EXTENSIONS
allowed_file(file) ==
    file.dot /\ (IF file.ext = "PDF" THEN "pdf" ELSE file.ext) \in ALLOWED_EXTENSIONS

\* the documents uploaded while streams are open: one that is summarized,
\* one without text, one the loader cannot read
UploadDocs ==
    { [chunks |-> 1, fail_at |-> 0], [chunks |-> 0, fail_at |-> 0],
      [chunks |-> 1, fail_at |-> 1] }

\* the documents processed alone: every length, every call that may raise
LongDocs ==
    { doc \in [chunks : 0..MaxChunks, fail_at : 0..(Batches(MaxChunks) + 2)] :
        doc.fail_at <= Batches(doc.chunks) + 2 }

\* the task ids a client may ask the progress of
TaskIds == 0..MaxUploads

Upload(task_id, doc) ==
    [task_id |-> task_id, doc |-> doc, put |-> 0, progress_queue |-> <<>>,
     result_queue |-> <<>>, thread |-> "running"]

Stream(task_id) == [task_id |-> task_id, upload |-> 0, pc |-> "check", complete |-> 0]

\* POST /upload answered 400: no file part, no filename, not a PDF
upload_rejected(file) ==
    /\ Len(uploads) < MaxUploads
    /\ Len(uploads) + Len(streams) < MaxRequests
    /\ ~file.present \/ file.name = "" \/ ~allowed_file(file)
    /\ UNCHANGED <<clock, processing_tasks, uploads, streams>>
    /\ UNCHANGED chatbot_vars

\* POST /upload of a PDF: task_id = str(time.time()), t being what
\* time.time() returns (the clock may not have advanced since the last
\* call); the queues are made, the task is stored, the thread is started
upload_file(file, doc, t) ==
    /\ Len(uploads) < MaxUploads
    /\ Len(uploads) + Len(streams) < MaxRequests
    /\ file.present /\ file.name # "" /\ allowed_file(file)
    /\ t \in {clock, clock + 1}
    /\ clock' = t
    /\ uploads' = Append(uploads, Upload(t, doc))
    /\ processing_tasks' = (t :> (Len(uploads) + 1)) @@ processing_tasks
    /\ UNCHANGED streams
    /\ UNCHANGED chatbot_vars

\* the thread of upload u inside process_policy: the next progress message
process_policy_put(u) ==
    /\ u \in DOMAIN uploads
    /\ uploads[u].thread = "running"
    /\ uploads[u].put < Len(process_policy(uploads[u].doc).puts)
    /\ uploads' = [uploads EXCEPT
                      ![u].put = @ + 1,
                      ![u].progress_queue =
                          Append(@, process_policy(uploads[u].doc).puts[uploads[u].put + 1])]
    /\ UNCHANGED <<clock, processing_tasks, streams>>
    /\ UNCHANGED chatbot_vars

\* process_in_background: process_policy has returned or raised; the
\* result is put on the result queue and the thread ends
process_in_background(u) ==
    /\ u \in DOMAIN uploads
    /\ uploads[u].thread = "running"
    /\ uploads[u].put = Len(process_policy(uploads[u].doc).puts)
    /\ uploads' = [uploads EXCEPT
                      ![u].thread = "done",
                      ![u].result_queue =
                          Append(@, [success |-> ~process_policy(uploads[u].doc).raised,
                                     error |-> process_policy(uploads[u].doc).error])]
    /\ UNCHANGED <<clock, processing_tasks, streams>>
    /\ UNCHANGED chatbot_vars

\* GET /progress/<task_id>: a generator is made
get_progress(task_id) ==
    /\ Len(streams) < MaxStreams
    /\ Len(uploads) + Len(streams) < MaxRequests
    /\ streams' = Append(streams, Stream(task_id))
    /\ UNCHANGED <<clock, processing_tasks, uploads>>
    /\ UNCHANGED chatbot_vars

\* generate: if task_id not in processing_tasks: 'Task not found', return
generate_check(s) ==
    /\ s \in DOMAIN streams
    /\ streams[s].pc = "check"
    /\ streams' = [streams EXCEPT
                      ![s].pc = IF streams[s].task_id \in DOMAIN processing_tasks
                                THEN "lookup" ELSE "not_found"]
    /\ UNCHANGED <<clock, processing_tasks, uploads>>
    /\ UNCHANGED chatbot_vars

\* generate: task = processing_tasks[task_id], a KeyError if the entry has
\* been deleted since the check
generate_lookup(s) ==
    /\ s \in DOMAIN streams
    /\ streams[s].pc = "lookup"
    /\ streams' = [streams EXCEPT
                      ![s] = IF streams[s].task_id \in DOMAIN processing_tasks
                             THEN [@ EXCEPT !.pc = "poll",
                                            !.upload = processing_tasks[streams[s].task_id]]
                             ELSE [@ EXCEPT !.pc = "key_error"]]
    /\ UNCHANGED <<clock, processing_tasks, uploads>>
    /\ UNCHANGED chatbot_vars

\* generate, one turn of the loop: result_queue.empty(), progress_queue.empty(),
\* time.sleep(0.1) when both are empty
generate_poll(s) ==
    /\ s \in DOMAIN streams
    /\ streams[s].pc = "poll"
    /\ streams' = [streams EXCEPT
                      ![s].pc = IF uploads[streams[s].upload].result_queue # <<>>
                                THEN "take_result"
                                ELSE IF uploads[streams[s].upload].progress_queue # <<>>
                                THEN "take_progress"
                                ELSE "poll"]
    /\ UNCHANGED <<clock, processing_tasks, uploads>>
    /\ UNCHANGED chatbot_vars

\* generate: result = result_queue.get() and the 'complete' event; get()
\* waits for ever when another generator has taken the result meanwhile
generate_take_result(s) ==
    /\ s \in DOMAIN streams
    /\ streams[s].pc = "take_result"
    /\ IF uploads[streams[s].upload].result_queue # <<>>
       THEN /\ uploads' = [uploads EXCEPT ![streams[s].upload].result_queue = Tail(@)]
            /\ streams' = [streams EXCEPT ![s].pc = "delete", ![s].complete = @ + 1]
       ELSE /\ streams' = [streams EXCEPT ![s].pc = "blocked"]
            /\ UNCHANGED uploads
    /\ UNCHANGED <<clock, processing_tasks>>
    /\ UNCHANGED chatbot_vars

\* generate: progress = progress_queue.get() and the 'progress' event
generate_take_progress(s) ==
    /\ s \in DOMAIN streams
    /\ streams[s].pc = "take_progress"
    /\ IF uploads[streams[s].upload].progress_queue # <<>>
       THEN /\ uploads' = [uploads EXCEPT ![streams[s].upload].progress_queue = Tail(@)]
            /\ streams' = [streams EXCEPT ![s].pc = "poll"]
       ELSE /\ streams' = [streams EXCEPT ![s].pc = "blocked"]
            /\ UNCHANGED uploads
    /\ UNCHANGED <<clock, processing_tasks>>
    /\ UNCHANGED chatbot_vars

\* generate: del processing_tasks[task_id], a KeyError if it is not there
generate_delete(s) ==
    /\ s \in DOMAIN streams
    /\ streams[s].pc = "delete"
    /\ IF streams[s].task_id \in DOMAIN processing_tasks
       THEN /\ processing_tasks' =
                  [id \in DOMAIN processing_tasks \ {streams[s].task_id} |->
                      processing_tasks[id]]
            /\ streams' = [streams EXCEPT ![s].pc = "done"]
       ELSE /\ streams' = [streams EXCEPT ![s].pc = "key_error"]
            /\ UNCHANGED processing_tasks
    /\ UNCHANGED <<clock, uploads>>
    /\ UNCHANGED chatbot_vars

\* the policy summary app after start-up: no task, no thread, no stream
InitSummary ==
    /\ entry = "statement_1_policy_summary/app.py"
    /\ store = InitialStore
    /\ history = <<>>
    /\ prev_questions = <<>>
    /\ cli_pc = "running"
    /\ session = NoCookie
    /\ kinds = <<>>
    /\ n_committed = 0
    /\ last = Step("start", <<>>, NoLlm1, NoResult, <<>>, <<>>, NoHttp)
    /\ browser = "a"
    /\ jar = [b \in Browsers |-> Held(NoCookie, <<>>, 0)]
    /\ inflight = {}
    /\ clock = 0
    /\ processing_tasks = <<>>
    /\ uploads = <<>>
    /\ streams = <<>>

NextUpload ==
    \/ \E file \in Files : upload_rejected(file)
    \/ \E file \in Files, doc \in UploadDocs, t \in TaskIds : upload_file(file, doc, t)
    \/ \E u \in 1..MaxUploads : process_policy_put(u)
    \/ \E u \in 1..MaxUploads : process_in_background(u)
    \/ \E task_id \in TaskIds : get_progress(task_id)
    \/ \E s \in 1..MaxStreams : generate_check(s)
    \/ \E s \in 1..MaxStreams : generate_lookup(s)
    \/ \E s \in 1..MaxStreams : generate_poll(s)
    \/ \E s \in 1..MaxStreams : generate_take_result(s)
    \/ \E s \in 1..MaxStreams : generate_take_progress(s)
    \/ \E s \in 1..MaxStreams : generate_delete(s)

SpecUpload == InitSummary /\ [][NextUpload]_vars

\* one document processed alone, nothing reading its queues
NextProgress ==
    \/ \E file \in Files, doc \in LongDocs, t \in TaskIds :
          uploads = <<>> /\ upload_file(file, doc, t)
    \/ process_policy_put(1)
    \/ process_in_background(1)

SpecProgress == InitSummary /\ [][NextProgress]_vars

(***************************************************************************)
(* C29: with uploads and /progress streams interleaving, no stream loops   *)
(* for ever or fails on a missing task entry. A generator inside its loop  *)
(* always has a result to come, on the result queue already or from a      *)
(* thread that still runs (otherwise it polls empty queues for ever); none *)
(* waits in get() on an emptied queue; none raises KeyError on             *)
(* processing_tasks; and none emits 'complete' twice.                      *)
(***************************************************************************)
InLoop(s) == streams[s].pc \in {"poll", "take_result", "take_progress"}

ResultToCome(u) == uploads[u].thread = "running" \/ uploads[u].result_queue # <<>>

C29_StreamsTerminate ==
    \A s \in DOMAIN streams :
        /\ streams[s].pc \notin {"blocked", "key_error"}
        /\ streams[s].complete <= 1
        /\ InLoop(s) => ResultToCome(streams[s].upload)

(***************************************************************************)
(* C30: the 'percent' values process_policy puts on the progress queue of  *)
(* one document never decrease from one message to the next, all lie in    *)
(* 0..100, whatever the number of chunks and whichever call raises, and    *)
(* the last one is 100 when the result put for the document is a success.  *)
(***************************************************************************)
PercentsOf(u) ==
    [k \in DOMAIN uploads[u].progress_queue |-> uploads[u].progress_queue[k].percent]

Succeeded(u) == uploads[u].result_queue # <<>> /\ uploads[u].result_queue[1].success

C30_PercentMonotone ==
    \A u \in DOMAIN uploads :
        /\ \A k \in DOMAIN PercentsOf(u) : PercentsOf(u)[k] \in 0..100
        /\ \A k \in 1..(Len(PercentsOf(u)) - 1) : PercentsOf(u)[k] <= PercentsOf(u)[k + 1]
        /\ Succeeded(u) =>
              /\ PercentsOf(u) # <<>>
              /\ PercentsOf(u)[Len(PercentsOf(u))] = 100

\* a document of 25 chunks (three batches, the last of five) summarized
C30_Witness ==
    /\ uploads # <<>>
    /\ uploads[1].doc.chunks = 25
    /\ Succeeded(1)
    /\ PercentsOf(1) = <<5, 15, 20, 25, 25, 45, 65, 75, 80, 90, 100>>

====
